---- MODULE Spec2Model ----
(***************************************************************************)
(* Workoutify: the FastAPI backend (src/backend/main.py) over the          *)
(* SQLAlchemy schema (src/backend/models.py), and the Streamlit forms      *)
(* (src/frontend/app.py) that drive it.                                    *)
(*                                                                         *)
(* The database is one record `db` with a field per table (a set of rows)  *)
(* and the primary-key sequences.  Every request handler is an operator    *)
(* from (db, request) to [db, status, body]; an action applies one handler *)
(* to the database and records the response in `resp`.                     *)
(*                                                                         *)
(* Time: a timestamp is an integer number of instants, DayLen instants to  *)
(* a calendar day, so DATE(t) = t \div DayLen.  Float columns (weights,    *)
(* quantities, macros) are integers in a fixed unit.                       *)
(***************************************************************************)
EXTENDS Integers, Sequences, FiniteSets, TLC

VARIABLES db, resp, session, screen, seed, calls

vars == <<db, resp, session, screen, seed, calls>>

----------------------------------------------------------------------------
(* Bounds of the model *)

\* primary keys handed out per table (rows ever created)
MaxUsers == 2
MaxRows == 2
\* rows of the one-row-per-table store scenario (SpecStore)
StoreRows == 1
\* instants per calendar day
DayLen == 2
\* timestamps of rows are 0..MaxTime
MaxTime == 3
\* number of rows create_exercises loads
NumExercises == 1
\* users of the admin CLI scenario (SpecCli)
CliUsers == 1
\* requests the backend serves at the same time
MaxCalls == 2
\* number of entries a form (sets of a workout, items of a meal) submits
MaxFormRows == 2
\* sleep, workout and meal rows, in all, of the views scenario (SpecViews)
ViewRows == 2

----------------------------------------------------------------------------
(* Values *)

\* Optional[...] = None
None == "None"
\* Optional[int] = None, for integer columns
NoneInt == -1

\* HTTP status codes
OK == 200
BadRequest == 400
NotFound == 404
Unprocessable == 422
ServerError == 500

Emails == {"a@x", "b@x"}

\* name, surname, location of a UserBase
Profiles ==
    { [name |-> "Ann", surname |-> "Lee", location |-> None],
      [name |-> "Bob", surname |-> "Roe", location |-> "Oslo"] }

Times == 0..MaxTime

\* DATE(t), datetime.date()
DateOf(t) == t \div DayLen

\* datetime.combine(d, tod)
Combine(d, tod) == d * DayLen + tod

----------------------------------------------------------------------------
(* The schema (models.py) *)

Tables == {"users", "sleep", "exercises", "workouts", "workout_sets",
           "foods", "meals", "meal_items"}

\* seed_data.create_exercises: the catalog rows, in insertion order
ExerciseCatalog ==
    << [exercise_name |-> "Back Squat", primary_muscle |-> "Quads", secondary_muscle |-> "Glutes"],
       [exercise_name |-> "Front Squat", primary_muscle |-> "Quads", secondary_muscle |-> "Core"],
       [exercise_name |-> "Bench Press", primary_muscle |-> "Chest", secondary_muscle |-> "Triceps"] >>

create_exercises ==
    { [exercise_id |-> i,
       exercise_name |-> ExerciseCatalog[i].exercise_name,
       primary_muscle |-> ExerciseCatalog[i].primary_muscle,
       secondary_muscle |-> ExerciseCatalog[i].secondary_muscle] : i \in 1..NumExercises }

\* the database after create_all and the exercise catalog load
EmptyDb ==
    [ users |-> {}, sleep |-> {}, exercises |-> create_exercises, workouts |-> {},
      workout_sets |-> {}, foods |-> {}, meals |-> {}, meal_items |-> {},
      seq |-> [t \in Tables |-> IF t = "exercises" THEN NumExercises + 1 ELSE 1] ]

\* db.get(Model, pk): the rows with that primary key (none or one)
GetUser(d, id) == {u \in d.users : u.user_id = id}
GetSleep(d, id) == {s \in d.sleep : s.sleep_id = id}
GetExercise(d, id) == {e \in d.exercises : e.exercise_id = id}
GetWorkout(d, id) == {w \in d.workouts : w.workout_id = id}
GetWorkoutSet(d, id) == {s \in d.workout_sets : s.set_id = id}
GetFood(d, id) == {f \in d.foods : f.food_id = id}
GetMeal(d, id) == {m \in d.meals : m.meal_id = id}
GetMealItem(d, id) == {i \in d.meal_items : i.meal_item_id = id}

\* autoincrement primary key: the next value of the table's sequence
NextId(d, t) == d.seq[t]
Bump(d, t) == [d.seq EXCEPT ![t] = @ + 1]

\* a handler's result
Result(d, status, body) == [db |-> d, status |-> status, body |-> body]
Fail(d, status, detail) == Result(d, status, [detail |-> detail])

----------------------------------------------------------------------------
(* Users (main.py 38-86) *)

\* create_user without the lookup by email
create_user_NoCheck(d, user_in) ==
    LET user == [user_id |-> NextId(d, "users"), email |-> user_in.email,
                 name |-> user_in.name, surname |-> user_in.surname,
                 location |-> user_in.location]
    IN Result([d EXCEPT !.users = @ \cup {user}, !.seq = Bump(d, "users")], OK, user)

create_user(d, user_in) ==
    IF \E u \in d.users : u.email = user_in.email
    THEN Fail(d, BadRequest, "User with this email already exists")
    ELSE LET user == [user_id |-> NextId(d, "users"), email |-> user_in.email,
                      name |-> user_in.name, surname |-> user_in.surname,
                      location |-> user_in.location]
         IN Result([d EXCEPT !.users = @ \cup {user}, !.seq = Bump(d, "users")],
                   OK, user)

\* login that overwrites the profile of the stored row (login-or-update)
login_Update(d, user_in) ==
    IF \E u \in d.users : u.email = user_in.email
    THEN LET old == CHOOSE u \in d.users : u.email = user_in.email
             new == [old EXCEPT !.name = user_in.name, !.surname = user_in.surname,
                                !.location = user_in.location]
         IN Result([d EXCEPT !.users = (@ \ {old}) \cup {new}], OK, new)
    ELSE LET user == [user_id |-> NextId(d, "users"), email |-> user_in.email,
                      name |-> user_in.name, surname |-> user_in.surname,
                      location |-> user_in.location]
         IN Result([d EXCEPT !.users = @ \cup {user}, !.seq = Bump(d, "users")],
                   OK, user)

login(d, user_in) ==
    IF \E u \in d.users : u.email = user_in.email
    THEN Result(d, OK, CHOOSE u \in d.users : u.email = user_in.email)
    ELSE LET user == [user_id |-> NextId(d, "users"), email |-> user_in.email,
                      name |-> user_in.name, surname |-> user_in.surname,
                      location |-> user_in.location]
         IN Result([d EXCEPT !.users = @ \cup {user}, !.seq = Bump(d, "users")],
                   OK, user)

(* ORM cascades (models.py: cascade="all, delete-orphan" on User.sleeps,   *)
(* User.workouts, User.meals, Workout.sets, Meal.meal_items,               *)
(* Exercise.sets and Food.meal_items): session.delete(row) deletes the     *)
(* rows of those relationships, transitively.                              *)

\* delete the workouts ws and their sets
CascadeWorkouts(d, ws) ==
    LET ids == {w.workout_id : w \in ws}
    IN [d EXCEPT !.workouts = @ \ ws,
                 !.workout_sets = {s \in @ : s.workout_id \notin ids}]

\* delete the meals ms and their items
CascadeMeals(d, ms) ==
    LET ids == {m.meal_id : m \in ms}
    IN [d EXCEPT !.meals = @ \ ms,
                 !.meal_items = {i \in @ : i.meal_id \notin ids}]

\* a cascade that stops at the user's own rows and leaves their sets and items
CascadeUser_OneLevel(d, user) ==
    [d EXCEPT !.users = @ \ {user},
              !.sleep = {s \in @ : s.user_id # user.user_id},
              !.workouts = {w \in @ : w.user_id # user.user_id},
              !.meals = {m \in @ : m.user_id # user.user_id}]

\* delete the user and everything the user owns
CascadeUser(d, user) ==
    LET d1 == [d EXCEPT !.users = @ \ {user},
                        !.sleep = {s \in @ : s.user_id # user.user_id}]
        d2 == CascadeWorkouts(d1, {w \in d1.workouts : w.user_id = user.user_id})
    IN CascadeMeals(d2, {m \in d2.meals : m.user_id = user.user_id})

\* a delete of the food row alone
CascadeFood_RowOnly(d, food) == [d EXCEPT !.foods = @ \ {food}]

\* delete the food and the meal items that reference it (Food.meal_items)
CascadeFood(d, food) ==
    [d EXCEPT !.foods = @ \ {food},
              !.meal_items = {i \in @ : i.food_id # food.food_id}]

delete_user(d, user_id) ==
    IF GetUser(d, user_id) = {}
    THEN Fail(d, NotFound, "User not found")
    ELSE Result(CascadeUser(d, CHOOSE u \in GetUser(d, user_id) : TRUE),
                OK, [detail |-> "User deleted"])

----------------------------------------------------------------------------
(* Sleep (main.py 89-119) *)

create_sleep(d, sleep_in) ==
    IF GetUser(d, sleep_in.user_id) = {}
    THEN Fail(d, NotFound, "User not found")
    ELSE LET sleep == [sleep_id |-> NextId(d, "sleep"), user_id |-> sleep_in.user_id,
                       start_time |-> sleep_in.start_time, end_time |-> sleep_in.end_time,
                       quality_score |-> sleep_in.quality_score]
         IN Result([d EXCEPT !.sleep = @ \cup {sleep}, !.seq = Bump(d, "sleep")],
                   OK, sleep)

delete_sleep(d, sleep_id) ==
    IF GetSleep(d, sleep_id) = {}
    THEN Fail(d, NotFound, "Sleep entry not found")
    ELSE Result([d EXCEPT !.sleep = @ \ GetSleep(d, sleep_id)],
                OK, [detail |-> "Sleep entry deleted"])

----------------------------------------------------------------------------
(* Workouts and sets (main.py 158-229) *)

create_workout(d, workout_in) ==
    IF GetUser(d, workout_in.user_id) = {}
    THEN Fail(d, NotFound, "User not found")
    ELSE LET workout == [workout_id |-> NextId(d, "workouts"), user_id |-> workout_in.user_id,
                         start_time |-> workout_in.start_time, end_time |-> workout_in.end_time,
                         label |-> workout_in.label]
         IN Result([d EXCEPT !.workouts = @ \cup {workout}, !.seq = Bump(d, "workouts")],
                   OK, workout)

\* a delete of the Workout row alone, its sets left behind
delete_workout_RowOnly(d, workout_id) ==
    IF GetWorkout(d, workout_id) = {}
    THEN Fail(d, NotFound, "Workout not found")
    ELSE Result([d EXCEPT !.workouts = @ \ GetWorkout(d, workout_id)],
                OK, [detail |-> "Workout deleted"])

delete_workout(d, workout_id) ==
    IF GetWorkout(d, workout_id) = {}
    THEN Fail(d, NotFound, "Workout not found")
    ELSE Result(CascadeWorkouts(d, GetWorkout(d, workout_id)),
                OK, [detail |-> "Workout deleted"])

\* create_workout_set without the lookup of the exercise
create_workout_set_NoExerciseCheck(d, set_in) ==
    IF GetWorkout(d, set_in.workout_id) = {}
    THEN Fail(d, NotFound, "Workout not found")
    ELSE LET ws == [set_id |-> NextId(d, "workout_sets"), workout_id |-> set_in.workout_id,
                    exercise_id |-> set_in.exercise_id, num_reps |-> set_in.num_reps,
                    weight_amount |-> set_in.weight_amount, set_order |-> set_in.set_order]
         IN Result([d EXCEPT !.workout_sets = @ \cup {ws}, !.seq = Bump(d, "workout_sets")],
                   OK, ws)

create_workout_set(d, set_in) ==
    IF GetWorkout(d, set_in.workout_id) = {}
    THEN Fail(d, NotFound, "Workout not found")
    ELSE IF GetExercise(d, set_in.exercise_id) = {}
    THEN Fail(d, NotFound, "Exercise not found")
    ELSE LET ws == [set_id |-> NextId(d, "workout_sets"), workout_id |-> set_in.workout_id,
                    exercise_id |-> set_in.exercise_id, num_reps |-> set_in.num_reps,
                    weight_amount |-> set_in.weight_amount, set_order |-> set_in.set_order]
         IN Result([d EXCEPT !.workout_sets = @ \cup {ws}, !.seq = Bump(d, "workout_sets")],
                   OK, ws)

delete_workout_set(d, set_id) ==
    IF GetWorkoutSet(d, set_id) = {}
    THEN Fail(d, NotFound, "Workout set not found")
    ELSE Result([d EXCEPT !.workout_sets = @ \ GetWorkoutSet(d, set_id)],
                OK, [detail |-> "Workout set deleted"])

----------------------------------------------------------------------------
(* Foods, meals and meal items (main.py 299-426) *)

create_food(d, food_in) ==
    LET food == [food_id |-> NextId(d, "foods"), food_name |-> food_in.food_name,
                 calories |-> food_in.calories, carbs |-> food_in.carbs,
                 fats |-> food_in.fats, protein |-> food_in.protein,
                 sugar |-> food_in.sugar, category |-> food_in.category,
                 serving_size_grams |-> food_in.serving_size_grams]
    IN Result([d EXCEPT !.foods = @ \cup {food}, !.seq = Bump(d, "foods")], OK, food)

delete_food(d, food_id) ==
    IF GetFood(d, food_id) = {}
    THEN Fail(d, NotFound, "Food not found")
    ELSE Result(CascadeFood(d, CHOOSE f \in GetFood(d, food_id) : TRUE),
                OK, [detail |-> "Food deleted"])

create_meal(d, meal_in) ==
    IF GetUser(d, meal_in.user_id) = {}
    THEN Fail(d, NotFound, "User not found")
    ELSE LET meal == [meal_id |-> NextId(d, "meals"), user_id |-> meal_in.user_id,
                      time_of_meal |-> meal_in.time_of_meal, meal_name |-> meal_in.meal_name]
         IN Result([d EXCEPT !.meals = @ \cup {meal}, !.seq = Bump(d, "meals")],
                   OK, meal)

delete_meal(d, meal_id) ==
    IF GetMeal(d, meal_id) = {}
    THEN Fail(d, NotFound, "Meal not found")
    ELSE Result(CascadeMeals(d, GetMeal(d, meal_id)),
                OK, [detail |-> "Meal deleted"])

create_meal_item(d, item_in) ==
    IF GetMeal(d, item_in.meal_id) = {}
    THEN Fail(d, NotFound, "Meal not found")
    ELSE IF GetFood(d, item_in.food_id) = {}
    THEN Fail(d, NotFound, "Food not found")
    ELSE LET mi == [meal_item_id |-> NextId(d, "meal_items"), meal_id |-> item_in.meal_id,
                    food_id |-> item_in.food_id, quantity |-> item_in.quantity]
         IN Result([d EXCEPT !.meal_items = @ \cup {mi}, !.seq = Bump(d, "meal_items")],
                   OK, mi)

\* a delete that confirms also when there is no such row
delete_meal_item_Idempotent(d, meal_item_id) ==
    Result([d EXCEPT !.meal_items = @ \ GetMealItem(d, meal_item_id)],
           OK, [detail |-> "Meal item deleted"])

delete_meal_item(d, meal_item_id) ==
    IF GetMealItem(d, meal_item_id) = {}
    THEN Fail(d, NotFound, "Meal item not found")
    ELSE Result([d EXCEPT !.meal_items = @ \ GetMealItem(d, meal_item_id)],
                OK, [detail |-> "Meal item deleted"])

----------------------------------------------------------------------------
(* SQL helpers *)

RECURSIVE Sum(_, _)
\* SUM of f[x] over the rows x of S
Sum(f, S) ==
    IF S = {} THEN 0
    ELSE LET x == CHOOSE y \in S : TRUE IN f[x] + Sum(f, S \ {x})

\* func.sum: NULL over no rows
SqlSum(f, S) == IF S = {} THEN NoneInt ELSE Sum(f, S)

RECURSIVE SortedAsc(_)
\* ORDER BY <integer> ASC of a set of distinct integers
SortedAsc(S) ==
    IF S = {} THEN <<>>
    ELSE LET m == CHOOSE x \in S : \A y \in S : x <= y
         IN <<m>> \o SortedAsc(S \ {m})

\* ORDER BY key ASC over the rows DOMAIN key, key[r] being the sort key of
\* row r: every order the database may return (rows with equal keys come
\* in any order)
OrderByAsc(key) ==
    LET S == DOMAIN key
    IN { q \in [1..Cardinality(S) -> S] :
           /\ \A x \in S : \E i \in DOMAIN q : q[i] = x
           /\ \A i, j \in DOMAIN q : i < j => key[q[i]] <= key[q[j]] }

\* ORDER BY key DESC
OrderByDesc(key) ==
    LET S == DOMAIN key
    IN { q \in [1..Cardinality(S) -> S] :
           /\ \A x \in S : \E i \in DOMAIN q : q[i] = x
           /\ \A i, j \in DOMAIN q : i < j => key[q[i]] >= key[q[j]] }

\* Query(7, ge=1, le=90)
DaysDefault == 7
DaysMin == 1
DaysMax == 90
\* bounds that exclude the two ends (gt, lt)
DaysValid_Exclusive(days) == days > DaysMin /\ days < DaysMax

DaysValid(days) == days >= DaysMin /\ days <= DaysMax

----------------------------------------------------------------------------
(* Response schemas (schemas.py 199-220): a pydantic model rejects a       *)
(* construction that leaves out a field without default.                   *)

Validate(required, fields) ==
    [ok |-> required \subseteq DOMAIN fields, value |-> fields]

SleepSummaryEntry(fields) == Validate({"date", "hours"}, fields)
WorkoutsPerDay(fields) == Validate({"date", "count", "total_weight"}, fields)
CaloriesPerDay(fields) == Validate({"date", "calories", "carbs", "fats", "protein"}, fields)

\* x or None: a falsy sum (NULL, 0.0) becomes null
OrZero_Null(x) == IF x = NoneInt \/ x = 0 THEN NoneInt ELSE x

\* x or 0.0
OrZero(x) == IF x = NoneInt \/ x = 0 THEN 0 ELSE x

----------------------------------------------------------------------------
(* Dashboard summary (main.py 475-580) *)

\* datetime.combine(cutoff_date, datetime.min.time())
SummaryCutoff(now, days) == Combine(DateOf(now - days * DayLen), 0)

\* the sleep query (486-494): the rows, in every order it may return them
SummarySleeps(d, user_id, days, now) ==
    OrderByAsc([s \in {x \in d.sleep : x.user_id = user_id
                                        /\ x.start_time >= SummaryCutoff(now, days)}
                  |-> s.start_time])

\* the workout query (514-526): one row per date, ascending
SummaryWorkoutRows(d, user_id, days, now) ==
    LET ws == {w \in d.workouts : w.user_id = user_id
                                  /\ w.start_time >= SummaryCutoff(now, days)}
        dates == SortedAsc({DateOf(w.start_time) : w \in ws})
    IN [i \in DOMAIN dates |->
          [date |-> dates[i],
           count |-> Cardinality({w \in ws : DateOf(w.start_time) = dates[i]})]]

\* the rows of meals JOIN meal_items JOIN foods of the user since the cutoff
MacroJoin(d, user_id, days, now) ==
    { [meal |-> m, item |-> mi, food |-> f] :
        m \in {x \in d.meals : x.user_id = user_id
                               /\ x.time_of_meal >= SummaryCutoff(now, days)},
        mi \in d.meal_items, f \in d.foods }

\* the nutrition query (546-563): one row per date, ascending
SummaryMacroRows(d, user_id, days, now) ==
    LET j == {r \in MacroJoin(d, user_id, days, now) :
                r.meal.meal_id = r.item.meal_id /\ r.item.food_id = r.food.food_id}
        dates == SortedAsc({DateOf(r.meal.time_of_meal) : r \in j})
        G(dt) == {r \in j : DateOf(r.meal.time_of_meal) = dt}
    IN [i \in DOMAIN dates |->
          [date |-> dates[i],
           calories |-> SqlSum([r \in G(dates[i]) |-> r.item.quantity * r.food.calories], G(dates[i])),
           carbs |-> SqlSum([r \in G(dates[i]) |-> r.item.quantity * r.food.carbs], G(dates[i])),
           fats |-> SqlSum([r \in G(dates[i]) |-> r.item.quantity * r.food.fats], G(dates[i])),
           protein |-> SqlSum([r \in G(dates[i]) |-> r.item.quantity * r.food.protein], G(dates[i]))]]

\* a summary that looks the user up first and refuses an unknown user_id
user_summary_RequiresUser(d, user_id, days, now, sleeps) ==
    IF ~DaysValid(days)
    THEN Fail(d, Unprocessable, "days out of range")
    ELSE IF GetUser(d, user_id) = {}
    THEN Fail(d, NotFound, "User not found")
    ELSE Result(d, OK, [sleep |-> <<>>, workouts_per_day |-> <<>>, calories_per_day |-> <<>>])

\* user_summary, given the rows `sleeps` the sleep query returned
user_summary(d, user_id, days, now, sleeps) ==
    IF ~DaysValid(days)
    THEN Fail(d, Unprocessable, "days out of range")
    ELSE
    LET sleep_entries ==
            [i \in DOMAIN sleeps |->
               SleepSummaryEntry([date |-> DateOf(sleeps[i].start_time),
                                  hours |-> sleeps[i].end_time - sleeps[i].start_time,
                                  quality_score |-> sleeps[i].quality_score])]
        workout_rows == SummaryWorkoutRows(d, user_id, days, now)
        workouts_per_day ==
            [i \in DOMAIN workout_rows |->
               WorkoutsPerDay([date |-> workout_rows[i].date,
                               count |-> workout_rows[i].count])]
        macro_rows == SummaryMacroRows(d, user_id, days, now)
        calories_per_day ==
            [i \in DOMAIN macro_rows |->
               CaloriesPerDay([date |-> macro_rows[i].date,
                               calories |-> OrZero(macro_rows[i].calories),
                               carbs |-> OrZero(macro_rows[i].carbs),
                               fats |-> OrZero(macro_rows[i].fats),
                               protein |-> OrZero(macro_rows[i].protein)])]
        Values(es) == [i \in DOMAIN es |-> es[i].value]
    IN IF \/ \E i \in DOMAIN sleep_entries : ~sleep_entries[i].ok
          \/ \E i \in DOMAIN workouts_per_day : ~workouts_per_day[i].ok
          \/ \E i \in DOMAIN calories_per_day : ~calories_per_day[i].ok
       THEN Fail(d, ServerError, "Internal Server Error")
       ELSE Result(d, OK, [sleep |-> Values(sleep_entries),
                           workouts_per_day |-> Values(workouts_per_day),
                           calories_per_day |-> Values(calories_per_day)])

----------------------------------------------------------------------------
(* The Streamlit forms (app.py): "Save workout" (518-580) and "Save meal"  *)
(* (672-731) post the parent, then one request per child, and stop at the  *)
(* first child the backend refuses.                                        *)

\* start and end of a form entry: an end at or before the start is taken
\* to be on the next day (app.py 293-298, 453-456)
FormStart(form_date, start_val) == Combine(form_date, start_val)
\* the end on the date of the form, whatever the start
FormEnd_SameDay(form_date, start_val, end_val) == Combine(form_date, end_val)

FormEnd(form_date, start_val, end_val) ==
    IF Combine(form_date, end_val) <= Combine(form_date, start_val)
    THEN Combine(form_date, end_val) + DayLen
    ELSE Combine(form_date, end_val)

RECURSIVE PostWorkoutSets(_, _, _, _)
\* the loop over sets_data from its i-th entry (553-576)
PostWorkoutSets(d, workout_id, sets_data, i) ==
    IF i > Len(sets_data)
    THEN [db |-> d, all_ok |-> TRUE, status |-> OK]
    ELSE LET set_resp == create_workout_set(d,
                 [workout_id |-> workout_id, exercise_id |-> sets_data[i].exercise_id,
                  num_reps |-> sets_data[i].num_reps,
                  weight_amount |-> sets_data[i].weight_amount, set_order |-> i])
         IN IF set_resp.status # OK
            THEN [db |-> set_resp.db, all_ok |-> FALSE, status |-> set_resp.status]
            ELSE PostWorkoutSets(set_resp.db, workout_id, sets_data, i + 1)

\* workout_form, "Save workout" pressed; workout_id 0: no workout was created
workout_form(d, form) ==
    IF form.label = ""
    THEN Result(d, 0, [workout_id |-> 0, all_ok |-> FALSE])
    ELSE LET workout_resp == create_workout(d,
                 [user_id |-> form.user_id,
                  start_time |-> FormStart(form.workout_date, form.start_time_val),
                  end_time |-> FormEnd(form.workout_date, form.start_time_val, form.end_time_val),
                  label |-> form.label])
         IN IF workout_resp.status # OK
            THEN Result(workout_resp.db, workout_resp.status,
                        [workout_id |-> 0, all_ok |-> FALSE])
            ELSE LET sets == PostWorkoutSets(workout_resp.db, workout_resp.body.workout_id,
                                             form.sets_data, 1)
                 IN Result(sets.db, sets.status,
                           [workout_id |-> workout_resp.body.workout_id,
                            all_ok |-> sets.all_ok])

\* sleep_form, "Save sleep entry" pressed (app.py 271-340); user_id 0: the
\* stored profile has no user_id and nothing is posted
sleep_form(d, form) ==
    IF form.user_id = 0
    THEN Result(d, 0, <<>>)
    ELSE create_sleep(d,
             [user_id |-> form.user_id,
              start_time |-> FormStart(form.sleep_date, form.start_time_val),
              end_time |-> FormEnd(form.sleep_date, form.start_time_val, form.end_time_val),
              quality_score |-> form.quality])

RECURSIVE PostMealItems(_, _, _, _)
\* the loop over items from its i-th entry (706-727)
PostMealItems(d, meal_id, items, i) ==
    IF i > Len(items)
    THEN [db |-> d, all_ok |-> TRUE, status |-> OK]
    ELSE LET item_resp == create_meal_item(d,
                 [meal_id |-> meal_id, food_id |-> items[i].food_id,
                  quantity |-> items[i].quantity])
         IN IF item_resp.status # OK
            THEN [db |-> item_resp.db, all_ok |-> FALSE, status |-> item_resp.status]
            ELSE PostMealItems(item_resp.db, meal_id, items, i + 1)

\* meal_form, "Save meal" pressed; meal_id 0: no meal was created
meal_form(d, form) ==
    IF form.meal_name = ""
    THEN Result(d, 0, [meal_id |-> 0, all_ok |-> FALSE])
    ELSE LET meal_resp == create_meal(d,
                 [user_id |-> form.user_id,
                  time_of_meal |-> Combine(form.meal_date, form.meal_time),
                  meal_name |-> form.meal_name])
         IN IF meal_resp.status # OK
            THEN Result(meal_resp.db, meal_resp.status, [meal_id |-> 0, all_ok |-> FALSE])
            ELSE LET its == PostMealItems(meal_resp.db, meal_resp.body.meal_id,
                                          form.items, 1)
                 IN Result(its.db, its.status,
                           [meal_id |-> meal_resp.body.meal_id, all_ok |-> its.all_ok])

----------------------------------------------------------------------------
(* Requests *)

\* the primary keys a request may name: those a sequence can hand out, and
\* one it never does
UserIds == 1..(MaxUsers + 1)
RowIds == 1..(MaxRows + 1)
ExerciseIds == 1..(NumExercises + 1)

UserInputs ==
    { [email |-> e, name |-> p.name, surname |-> p.surname, location |-> p.location] :
        e \in Emails, p \in Profiles }

\* the sequences of length 1..n over S
SeqsUpTo(S, n) == UNION { [1..k -> S] : k \in 1..n }

\* no table has handed out more than cap[t] primary keys
Within(d, cap) == \A t \in Tables : d.seq[t] <= cap[t] + 1

Caps(users, rows) ==
    [t \in Tables |-> IF t = "users" THEN users
                      ELSE IF t = "exercises" THEN NumExercises
                      ELSE rows]

(* The session of the frontend (app.py 14-21): st.session_state is a      *)
(* dictionary; keys are the keys it holds, the other fields their values. *)
(* An optional value is a set: Nothing for Python's None, Some(v) for v.  *)

Nothing == {}
Some(v) == {v}
The(o) == CHOOSE v \in o : TRUE

\* st.session_state.clear()
ClearedSession ==
    [keys |-> {}, authenticated |-> FALSE, user |-> Nothing, page |-> "",
     foods |-> Nothing, exercises |-> Nothing]

\* st.session_state[key] = val
SetItem(s, key, val) == [s EXCEPT !.keys = @ \cup {key}, ![key] = val]

\* the defaults set at the top of every script run (14-21)
SessionState(s) ==
    LET a == IF "authenticated" \in s.keys THEN s ELSE SetItem(s, "authenticated", FALSE)
        u == IF "user" \in a.keys THEN a ELSE SetItem(a, "user", Nothing)
    IN IF "page" \in u.keys THEN u ELSE SetItem(u, "page", "dashboard")

\* a worker of the backend that serves no request
Idle == [op |-> "idle", args |-> <<>>, pc |-> "idle", status |-> 0, body |-> <<>>]

\* the handler's result r becomes the database, the response is recorded;
\* a request made to the backend directly, and served in one step, leaves
\* the frontend, the seed script and the requests in progress alone
Respond(op, args, r) ==
    /\ db' = r.db
    /\ resp' = [op |-> op, args |-> args, status |-> r.status, body |-> r.body]
    /\ UNCHANGED <<session, screen, seed, calls>>

\* the empty database and the first script run of a browser session, which
\* shows the login page; seed is the position of clear_existing_data: 0
\* when it does not run, else the number of its next statement; no request
\* is in progress
Init ==
    /\ db = EmptyDb
    /\ resp = [op |-> "startup", args |-> <<>>, status |-> OK, body |-> <<>>]
    /\ session = SessionState(ClearedSession)
    /\ screen = [run |-> 0, event |-> "open", rendered |-> "login", sent |-> <<>>,
                 received |-> <<>>, foods |-> Nothing, exercises |-> Nothing]
    /\ seed = 0
    /\ calls = [i \in 1..MaxCalls |-> Idle]

----------------------------------------------------------------------------
(* Listings (main.py 142-155, 277-296, 454-472): every order the query    *)
(* may return the user's rows in, most recent first                        *)

get_sleep_all(d, user_id) ==
    OrderByDesc([s \in {x \in d.sleep : x.user_id = user_id} |-> s.start_time])

\* each workout comes with its sets (WorkoutOut.sets)
get_workouts_all(d, user_id) ==
    OrderByDesc([r \in { [workout |-> w,
                            sets |-> {s \in d.workout_sets : s.workout_id = w.workout_id}] :
                            w \in {x \in d.workouts : x.user_id = user_id} }
                   |-> r.workout.start_time])

\* each meal comes with its items (MealOut.meal_items)
get_meals_all(d, user_id) ==
    OrderByDesc([r \in { [meal |-> m,
                            meal_items |-> {i \in d.meal_items : i.meal_id = m.meal_id}] :
                            m \in {x \in d.meals : x.user_id = user_id} }
                   |-> r.meal.time_of_meal])

----------------------------------------------------------------------------
(* Recent listings (main.py 122-139, 232-274, 429-451): the rows since     *)
(* utcnow() - timedelta(days), most recent first.  Each operator gives the *)
(* set of responses the request may get, one per order the query may       *)
(* return its rows in.                                                     *)

\* a days query parameter that is left out (NoneInt) takes the default
DaysQuery(days) == IF days = NoneInt THEN DaysDefault ELSE days

\* the cutoff truncated to midnight of its date, as in the summary
RecentCutoff_Midnight(now, days) == Combine(DateOf(now - days * DayLen), 0)

\* datetime.utcnow() - timedelta(days=days)
RecentCutoff(now, days) == now - days * DayLen

get_sleep_recent(d, user_id, days, now) ==
    IF ~DaysValid(days)
    THEN {Fail(d, Unprocessable, "days out of range")}
    ELSE { Result(d, OK, q) :
            q \in OrderByDesc([s \in {x \in d.sleep :
                                       /\ x.user_id = user_id
                                       /\ x.start_time >= RecentCutoff(now, days)}
                                 |-> s.start_time]) }

\* the listing over an inner join with the sets: a workout without sets
\* has no row
get_workouts_recent_InnerJoin(d, user_id, days, now) ==
    IF ~DaysValid(days)
    THEN {Fail(d, Unprocessable, "days out of range")}
    ELSE LET ws == {w \in d.workouts : /\ w.user_id = user_id
                                        /\ w.start_time >= RecentCutoff(now, days)
                                        /\ \E s \in d.workout_sets :
                                              s.workout_id = w.workout_id}
             rows == { [workout_id |-> w.workout_id,
                        date |-> DateOf(w.start_time),
                        label |-> w.label,
                        num_sets |-> Cardinality({s \in d.workout_sets :
                                                    s.workout_id = w.workout_id})] :
                       w \in ws }
         IN { Result(d, OK, q) : q \in OrderByDesc([r \in rows |-> r.date]) }

\* one WorkoutSummary per workout: GROUP BY workout_id over the LEFT JOIN
\* with the sets, ORDER BY DATE(start_time) DESC
get_workouts_recent(d, user_id, days, now) ==
    IF ~DaysValid(days)
    THEN {Fail(d, Unprocessable, "days out of range")}
    ELSE LET ws == {w \in d.workouts : /\ w.user_id = user_id
                                        /\ w.start_time >= RecentCutoff(now, days)}
             rows == { [workout_id |-> w.workout_id,
                        date |-> DateOf(w.start_time),
                        label |-> w.label,
                        num_sets |-> Cardinality({s \in d.workout_sets :
                                                    s.workout_id = w.workout_id})] :
                       w \in ws }
         IN { Result(d, OK, q) : q \in OrderByDesc([r \in rows |-> r.date]) }

get_meals_recent(d, user_id, days, now) ==
    IF ~DaysValid(days)
    THEN {Fail(d, Unprocessable, "days out of range")}
    ELSE { Result(d, OK, q) :
            q \in OrderByDesc([r \in { [meal |-> m,
                                         meal_items |-> {i \in d.meal_items :
                                                           i.meal_id = m.meal_id}] :
                                         m \in {x \in d.meals :
                                                  /\ x.user_id = user_id
                                                  /\ x.time_of_meal >= RecentCutoff(now, days)} }
                                 |-> r.meal.time_of_meal]) }

----------------------------------------------------------------------------
(* Food search (main.py 339-354): LOWER(food_name) LIKE '%' || lower(query)*)
(* || '%' ORDER BY food_name ASC.  A text is the sequence of its           *)
(* characters.                                                             *)

\* the food names and the search texts of the model, character by character
Chars ==
    ("Chicken Breast" :> <<"C", "h", "i", "c", "k", "e", "n", " ", "B", "r", "e", "a", "s", "t">>) @@
    ("Rice" :> <<"R", "i", "c", "e">>) @@
    ("rice cake" :> <<"r", "i", "c", "e", " ", "c", "a", "k", "e">>) @@
    ("" :> <<>>) @@
    ("chic" :> <<"c", "h", "i", "c">>) @@
    ("RICE" :> <<"R", "I", "C", "E">>) @@
    ("e b" :> <<"e", " ", "b">>) @@
    ("x" :> <<"x">>) @@
    ("%" :> <<"%">>) @@
    ("_" :> <<"_">>)

\* the characters, in the order of their codes
Alphabet == <<" ", "%", "B", "C", "E", "I", "R", "_", "a", "b", "c", "e", "h", "i",
              "k", "n", "r", "s", "t", "x">>

CharCode(c) == CHOOSE i \in DOMAIN Alphabet : Alphabet[i] = c

\* str.lower(), LOWER(): a capital letter becomes its small letter
LowerChar(c) ==
    CASE c = "B" -> "b" [] c = "C" -> "c" [] c = "E" -> "e" [] c = "I" -> "i"
      [] c = "R" -> "r" [] c = "S" -> "s" [] c = "Y" -> "y" [] OTHER -> c

Lower(s) == [i \in DOMAIN s |-> LowerChar(s[i])]

RECURSIVE Like(_, _)
\* s LIKE p: % stands for any text, _ for any one character, a backslash
\* takes the character after it literally
Like(s, p) ==
    IF p = <<>> THEN s = <<>>
    ELSE IF Head(p) = "%"
    THEN \E k \in 0..Len(s) : Like(SubSeq(s, k + 1, Len(s)), Tail(p))
    ELSE IF Head(p) = "_"
    THEN s # <<>> /\ Like(Tail(s), Tail(p))
    ELSE IF Head(p) = "\\" /\ Len(p) >= 2
    THEN s # <<>> /\ Head(s) = p[2] /\ Like(Tail(s), Tail(Tail(p)))
    ELSE s # <<>> /\ Head(s) = Head(p) /\ Like(Tail(s), Tail(p))

RECURSIVE TextLess(_, _)
\* a < b for texts, character by character
TextLess(a, b) ==
    IF b = <<>> THEN FALSE
    ELSE IF a = <<>> THEN TRUE
    ELSE IF Head(a) # Head(b) THEN CharCode(Head(a)) < CharCode(Head(b))
    ELSE TextLess(Tail(a), Tail(b))

\* the rows ordered by food_name ascending: every order the query may
\* return (foods of one name come in any order)
OrderByName(foods) ==
    OrderByAsc([f \in foods |->
                  Cardinality({g \in foods : TextLess(Chars[g.food_name], Chars[f.food_name])})])

search_foods(d, query) ==
    IF Len(Chars[query]) < 1
    THEN {Fail(d, Unprocessable, "query too short")}
    ELSE LET q == <<"%">> \o Lower(Chars[query]) \o <<"%">>
         IN { Result(d, OK, o) :
                o \in OrderByName({f \in d.foods : Like(Lower(Chars[f.food_name]), q)}) }

----------------------------------------------------------------------------
(* The user endpoints, with sleep entries as the owned rows *)

UsersCap == Caps(MaxUsers, StoreRows)

UCreateUser ==
    \E user_in \in UserInputs :
        /\ Within(create_user(db, user_in).db, UsersCap)
        /\ Respond("create_user", user_in, create_user(db, user_in))

ULogin ==
    \E user_in \in UserInputs :
        /\ Within(login(db, user_in).db, UsersCap)
        /\ Respond("login", user_in, login(db, user_in))

UDeleteUser ==
    \E user_id \in UserIds :
        /\ Within(db, UsersCap)
        /\ Respond("delete_user", user_id, delete_user(db, user_id))

UCreateSleep ==
    \E user_id \in UserIds, q \in {NoneInt, 7} :
        LET sleep_in == [user_id |-> user_id, start_time |-> 1, end_time |-> 2,
                         quality_score |-> q]
        IN /\ Within(create_sleep(db, sleep_in).db, UsersCap)
           /\ Respond("create_sleep", sleep_in, create_sleep(db, sleep_in))

UDeleteSleep ==
    \E sleep_id \in 1..(StoreRows + 1) :
        /\ Within(db, UsersCap)
        /\ Respond("delete_sleep", sleep_id, delete_sleep(db, sleep_id))

NextUsers == UCreateUser \/ ULogin \/ UDeleteUser \/ UCreateSleep \/ UDeleteSleep

SpecUsers == Init /\ [][NextUsers]_vars

----------------------------------------------------------------------------
(* The whole store: every create and every delete endpoint, with at most   *)
(* StoreRows primary keys per owned table                                  *)

StoreCap == Caps(MaxUsers, StoreRows)
StoreIds == 1..(StoreRows + 1)

\* one request per email
StoreUserInputs ==
    { [email |-> e, name |-> "Ann", surname |-> "Lee", location |-> None] : e \in Emails }

StoreFoodInput ==
    [food_name |-> "Rice", calories |-> 3, carbs |-> 2, fats |-> 0, protein |-> 1,
     sugar |-> 0, category |-> "Carb", serving_size_grams |-> 100]

SCreateUser ==
    \E user_in \in StoreUserInputs :
        /\ Within(create_user(db, user_in).db, StoreCap)
        /\ Respond("create_user", user_in, create_user(db, user_in))

SDeleteUser ==
    \E user_id \in UserIds :
        /\ Within(db, StoreCap)
        /\ Respond("delete_user", user_id, delete_user(db, user_id))

SCreateSleep ==
    \E user_id \in UserIds :
        LET sleep_in == [user_id |-> user_id, start_time |-> 1, end_time |-> 2,
                         quality_score |-> 7]
        IN /\ Within(create_sleep(db, sleep_in).db, StoreCap)
           /\ Respond("create_sleep", sleep_in, create_sleep(db, sleep_in))

SDeleteSleep ==
    \E sleep_id \in StoreIds :
        /\ Within(db, StoreCap)
        /\ Respond("delete_sleep", sleep_id, delete_sleep(db, sleep_id))

SCreateWorkout ==
    \E user_id \in UserIds :
        LET workout_in == [user_id |-> user_id, start_time |-> 1, end_time |-> 2,
                           label |-> "Push"]
        IN /\ Within(create_workout(db, workout_in).db, StoreCap)
           /\ Respond("create_workout", workout_in, create_workout(db, workout_in))

SDeleteWorkout ==
    \E workout_id \in StoreIds :
        /\ Within(db, StoreCap)
        /\ Respond("delete_workout", workout_id, delete_workout(db, workout_id))

SCreateWorkoutSet ==
    \E workout_id \in StoreIds, exercise_id \in ExerciseIds :
        LET set_in == [workout_id |-> workout_id, exercise_id |-> exercise_id,
                       num_reps |-> 10, weight_amount |-> 50, set_order |-> 1]
        IN /\ Within(create_workout_set(db, set_in).db, StoreCap)
           /\ Respond("create_workout_set", set_in, create_workout_set(db, set_in))

SDeleteWorkoutSet ==
    \E set_id \in StoreIds :
        /\ Within(db, StoreCap)
        /\ Respond("delete_workout_set", set_id, delete_workout_set(db, set_id))

SCreateFood ==
    /\ Within(create_food(db, StoreFoodInput).db, StoreCap)
    /\ Respond("create_food", StoreFoodInput, create_food(db, StoreFoodInput))

SDeleteFood ==
    \E food_id \in StoreIds :
        /\ Within(db, StoreCap)
        /\ Respond("delete_food", food_id, delete_food(db, food_id))

SCreateMeal ==
    \E user_id \in UserIds :
        LET meal_in == [user_id |-> user_id, time_of_meal |-> 1, meal_name |-> "Lunch"]
        IN /\ Within(create_meal(db, meal_in).db, StoreCap)
           /\ Respond("create_meal", meal_in, create_meal(db, meal_in))

SDeleteMeal ==
    \E meal_id \in StoreIds :
        /\ Within(db, StoreCap)
        /\ Respond("delete_meal", meal_id, delete_meal(db, meal_id))

SCreateMealItem ==
    \E meal_id \in StoreIds, food_id \in StoreIds :
        LET item_in == [meal_id |-> meal_id, food_id |-> food_id, quantity |-> 2]
        IN /\ Within(create_meal_item(db, item_in).db, StoreCap)
           /\ Respond("create_meal_item", item_in, create_meal_item(db, item_in))

SDeleteMealItem ==
    \E meal_item_id \in StoreIds :
        /\ Within(db, StoreCap)
        /\ Respond("delete_meal_item", meal_item_id, delete_meal_item(db, meal_item_id))

NextStore ==
    \/ SCreateUser \/ SDeleteUser
    \/ SCreateSleep \/ SDeleteSleep
    \/ SCreateWorkout \/ SDeleteWorkout
    \/ SCreateWorkoutSet \/ SDeleteWorkoutSet
    \/ SCreateFood \/ SDeleteFood
    \/ SCreateMeal \/ SDeleteMeal
    \/ SCreateMealItem \/ SDeleteMealItem

SpecStore == Init /\ [][NextStore]_vars

----------------------------------------------------------------------------
(* The whole store and a returning login that carries another profile     *)
(* than the one stored                                                     *)

ReturningLoginInput ==
    [email |-> "a@x", name |-> "Bob", surname |-> "Roe", location |-> "Oslo"]

OLogin ==
    /\ Within(login(db, ReturningLoginInput).db, StoreCap)
    /\ Respond("login", ReturningLoginInput, login(db, ReturningLoginInput))

NextWriteOnce == NextStore \/ OLogin

SpecWriteOnce == Init /\ [][NextWriteOnce]_vars

----------------------------------------------------------------------------
(* Parents and children: one user with up to MaxRows workouts, sets, meals *)
(* and meal items, and the deletes of the parents                          *)

ParentsCap ==
    [Caps(1, MaxRows) EXCEPT !["foods"] = 1, !["sleep"] = 0]

PCreateUser ==
    \E user_in \in StoreUserInputs :
        /\ Within(create_user(db, user_in).db, ParentsCap)
        /\ Respond("create_user", user_in, create_user(db, user_in))

PCreateWorkout ==
    \E user_id \in {1} :
        LET workout_in == [user_id |-> user_id, start_time |-> 1, end_time |-> 2,
                           label |-> "Push"]
        IN /\ Within(create_workout(db, workout_in).db, ParentsCap)
           /\ Respond("create_workout", workout_in, create_workout(db, workout_in))

PCreateWorkoutSet ==
    \E workout_id \in 1..MaxRows :
        LET set_in == [workout_id |-> workout_id, exercise_id |-> 1,
                       num_reps |-> 10, weight_amount |-> 50, set_order |-> 1]
        IN /\ Within(create_workout_set(db, set_in).db, ParentsCap)
           /\ Respond("create_workout_set", set_in, create_workout_set(db, set_in))

PDeleteWorkout ==
    \E workout_id \in RowIds :
        /\ Within(db, ParentsCap)
        /\ Respond("delete_workout", workout_id, delete_workout(db, workout_id))

PCreateFood ==
    /\ Within(create_food(db, StoreFoodInput).db, ParentsCap)
    /\ Respond("create_food", StoreFoodInput, create_food(db, StoreFoodInput))

PCreateMeal ==
    \E user_id \in {1} :
        LET meal_in == [user_id |-> user_id, time_of_meal |-> 1, meal_name |-> "Lunch"]
        IN /\ Within(create_meal(db, meal_in).db, ParentsCap)
           /\ Respond("create_meal", meal_in, create_meal(db, meal_in))

PCreateMealItem ==
    \E meal_id \in 1..MaxRows :
        LET item_in == [meal_id |-> meal_id, food_id |-> 1, quantity |-> 2]
        IN /\ Within(create_meal_item(db, item_in).db, ParentsCap)
           /\ Respond("create_meal_item", item_in, create_meal_item(db, item_in))

PDeleteMeal ==
    \E meal_id \in RowIds :
        /\ Within(db, ParentsCap)
        /\ Respond("delete_meal", meal_id, delete_meal(db, meal_id))

NextParents ==
    \/ PCreateUser
    \/ PCreateWorkout \/ PCreateWorkoutSet \/ PDeleteWorkout
    \/ PCreateFood \/ PCreateMeal \/ PCreateMealItem \/ PDeleteMeal

SpecParents == Init /\ [][NextParents]_vars

----------------------------------------------------------------------------
(* Requests of the dashboard scenarios *)

\* datetime.utcnow() at the time of a summary request
Nows == {MaxTime + DayLen}

\* the days parameter of a summary request
SummaryDays == {0, DaysMin, DaysMax}

LoginInputs ==
    { [email |-> e, name |-> "Ann", surname |-> "Lee", location |-> None] : e \in Emails }

\* user_summary on the rows returned by its sleep query
Summary(cap, user_ids, day_params) ==
    \E user_id \in user_ids, days \in day_params, now \in Nows :
        \E sleeps \in SummarySleeps(db, user_id, days, now) :
            /\ Within(db, cap)
            /\ Respond("user_summary", [user_id |-> user_id, days |-> days, now |-> now],
                       user_summary(db, user_id, days, now, sleeps))

----------------------------------------------------------------------------
(* Workouts: login, the workout endpoint, the workout form and the summary *)

WorkoutCap == Caps(MaxUsers, MaxRows)

\* the widgets of one set of the workout form
SetWidgets == { [exercise_id |-> e, num_reps |-> 10, weight_amount |-> 50] : e \in ExerciseIds }

\* the filled-in forms, and one form without label
WorkoutForms ==
    { [user_id |-> u, workout_date |-> 1, start_time_val |-> t, end_time_val |-> 0,
       label |-> "Push", sets_data |-> sd] :
        u \in UserIds, t \in 0..(DayLen - 1), sd \in SeqsUpTo(SetWidgets, MaxFormRows) }
    \cup
    { [user_id |-> 1, workout_date |-> 1, start_time_val |-> 0, end_time_val |-> 0,
       label |-> "", sets_data |-> sd] : sd \in SeqsUpTo(SetWidgets, 1) }

WLogin ==
    \E user_in \in LoginInputs :
        /\ Within(login(db, user_in).db, WorkoutCap)
        /\ Respond("login", user_in, login(db, user_in))

WCreateWorkout ==
    \E user_id \in UserIds :
        LET workout_in == [user_id |-> user_id, start_time |-> 0,
                           end_time |-> 1, label |-> "Legs"]
        IN /\ Within(create_workout(db, workout_in).db, WorkoutCap)
           /\ Respond("create_workout", workout_in, create_workout(db, workout_in))

WWorkoutForm ==
    \E form \in WorkoutForms :
        /\ Within(workout_form(db, form).db, WorkoutCap)
        /\ Respond("workout_form", form, workout_form(db, form))

WSummary == Summary(WorkoutCap, UserIds, SummaryDays)

NextWorkout == WLogin \/ WCreateWorkout \/ WWorkoutForm \/ WSummary

SpecWorkout == Init /\ [][NextWorkout]_vars

----------------------------------------------------------------------------
(* Meals: login, the food catalog, the meal form and the summary *)

MealCap == [Caps(MaxUsers, MaxRows) EXCEPT !["workouts"] = 1]

FoodInputs ==
    { [food_name |-> "Rice", calories |-> 3, carbs |-> 2, fats |-> 0, protein |-> 1,
       sugar |-> 0, category |-> "Carb", serving_size_grams |-> 100],
      [food_name |-> "Chicken Breast", calories |-> 5, carbs |-> 0, fats |-> 1, protein |-> 4,
       sugar |-> 0, category |-> "Protein", serving_size_grams |-> 100] }

\* the widgets of one item of the meal form
ItemWidgets == { [food_id |-> f, quantity |-> f] : f \in 1..MaxRows }

\* the filled-in forms, and one form without meal name
MealForms ==
    { [user_id |-> u, meal_date |-> dt, meal_time |-> 0, meal_name |-> "Lunch", items |-> its] :
        u \in 1..MaxUsers, dt \in 0..DateOf(MaxTime), its \in SeqsUpTo(ItemWidgets, MaxFormRows) }
    \cup
    { [user_id |-> 1, meal_date |-> 0, meal_time |-> 0, meal_name |-> "", items |-> its] :
        its \in SeqsUpTo(ItemWidgets, 1) }

MLogin ==
    \E user_in \in LoginInputs :
        /\ Within(login(db, user_in).db, MealCap)
        /\ Respond("login", user_in, login(db, user_in))

MCreateFood ==
    \E food_in \in FoodInputs :
        /\ Within(create_food(db, food_in).db, MealCap)
        /\ Respond("create_food", food_in, create_food(db, food_in))

MMealForm ==
    \E form \in MealForms :
        /\ Within(meal_form(db, form).db, MealCap)
        /\ Respond("meal_form", form, meal_form(db, form))

\* one workout of the first user, inside the window
MCreateWorkout ==
    \E user_id \in {1} :
        LET workout_in == [user_id |-> user_id, start_time |-> MaxTime,
                           end_time |-> MaxTime + 1, label |-> "Legs"]
        IN /\ Within(create_workout(db, workout_in).db, MealCap)
           /\ Respond("create_workout", workout_in, create_workout(db, workout_in))

MSummary == Summary(MealCap, 1..MaxUsers, {DaysMin, DaysMax})

NextMeal == MLogin \/ MCreateFood \/ MMealForm \/ MCreateWorkout \/ MSummary

SpecMeal == Init /\ [][NextMeal]_vars

----------------------------------------------------------------------------
(* Views: login, the sleep, workout and meal endpoints, the summary and    *)
(* the listings, over at most ViewRows sleep, workout and meal rows        *)

\* datetime.utcnow() at the time of a view request: DaysDefault days after
\* the latest row
ViewNow == DaysDefault * DayLen + MaxTime

\* the days query parameter of a view request; NoneInt: left out
ViewDays == {NoneInt, DaysMin - 1, DaysMin, DaysDefault, DaysMax, DaysMax + 1}

\* the start times of the rows
ViewTimes == 1..MaxTime

ViewWithin(d) ==
    /\ d.seq["users"] <= MaxUsers + 1
    /\ (d.seq["sleep"] - 1) + (d.seq["workouts"] - 1) + (d.seq["meals"] - 1) <= ViewRows

VLogin ==
    \E user_in \in LoginInputs :
        /\ ViewWithin(login(db, user_in).db)
        /\ Respond("login", user_in, login(db, user_in))

VCreateSleep ==
    \E user_id \in 1..MaxUsers, t \in ViewTimes :
        LET sleep_in == [user_id |-> user_id, start_time |-> t, end_time |-> 2 * t,
                         quality_score |-> IF t = 1 THEN NoneInt ELSE t + 4]
        IN /\ ViewWithin(create_sleep(db, sleep_in).db)
           /\ Respond("create_sleep", sleep_in, create_sleep(db, sleep_in))

VCreateWorkout ==
    \E user_id \in 1..MaxUsers, t \in ViewTimes :
        LET workout_in == [user_id |-> user_id, start_time |-> t, end_time |-> t + 1,
                           label |-> "Legs"]
        IN /\ ViewWithin(create_workout(db, workout_in).db)
           /\ Respond("create_workout", workout_in, create_workout(db, workout_in))

VCreateMeal ==
    \E user_id \in 1..MaxUsers, t \in ViewTimes :
        LET meal_in == [user_id |-> user_id, time_of_meal |-> t, meal_name |-> "Lunch"]
        IN /\ ViewWithin(create_meal(db, meal_in).db)
           /\ Respond("create_meal", meal_in, create_meal(db, meal_in))

VSummary ==
    \E user_id \in UserIds, days \in ViewDays :
        \E sleeps \in SummarySleeps(db, user_id, DaysQuery(days), ViewNow) :
            /\ ViewWithin(db)
            /\ Respond("user_summary", [user_id |-> user_id, days |-> days, now |-> ViewNow],
                       user_summary(db, user_id, DaysQuery(days), ViewNow, sleeps))

VSleepRecent ==
    \E user_id \in UserIds, days \in ViewDays :
        \E r \in get_sleep_recent(db, user_id, DaysQuery(days), ViewNow) :
            /\ ViewWithin(db)
            /\ Respond("get_sleep_recent",
                       [user_id |-> user_id, days |-> days, now |-> ViewNow], r)

VWorkoutsRecent ==
    \E user_id \in UserIds, days \in ViewDays :
        \E r \in get_workouts_recent(db, user_id, DaysQuery(days), ViewNow) :
            /\ ViewWithin(db)
            /\ Respond("get_workouts_recent",
                       [user_id |-> user_id, days |-> days, now |-> ViewNow], r)

VMealsRecent ==
    \E user_id \in UserIds, days \in ViewDays :
        \E r \in get_meals_recent(db, user_id, DaysQuery(days), ViewNow) :
            /\ ViewWithin(db)
            /\ Respond("get_meals_recent",
                       [user_id |-> user_id, days |-> days, now |-> ViewNow], r)

VSleepAll ==
    \E user_id \in UserIds :
        \E q \in get_sleep_all(db, user_id) :
            /\ ViewWithin(db)
            /\ Respond("get_sleep_all", [user_id |-> user_id], Result(db, OK, q))

VWorkoutsAll ==
    \E user_id \in UserIds :
        \E q \in get_workouts_all(db, user_id) :
            /\ ViewWithin(db)
            /\ Respond("get_workouts_all", [user_id |-> user_id], Result(db, OK, q))

VMealsAll ==
    \E user_id \in UserIds :
        \E q \in get_meals_all(db, user_id) :
            /\ ViewWithin(db)
            /\ Respond("get_meals_all", [user_id |-> user_id], Result(db, OK, q))

NextViews ==
    \/ VLogin \/ VCreateSleep \/ VCreateWorkout \/ VCreateMeal
    \/ VSummary
    \/ VSleepRecent \/ VWorkoutsRecent \/ VMealsRecent
    \/ VSleepAll \/ VWorkoutsAll \/ VMealsAll

SpecViews == Init /\ [][NextViews]_vars

----------------------------------------------------------------------------
(* The food catalog: create, delete and search *)

FoodsCap == Caps(MaxUsers, MaxRows)

FoodNames == {"Chicken Breast", "Rice", "rice cake"}

\* the texts typed into the search
Queries == {"", "chic", "RICE", "e b", "x", "%", "_"}

FCreateFood ==
    \E name \in FoodNames :
        LET food_in == [StoreFoodInput EXCEPT !.food_name = name]
        IN /\ Within(create_food(db, food_in).db, FoodsCap)
           /\ Respond("create_food", food_in, create_food(db, food_in))

FDeleteFood ==
    \E food_id \in RowIds :
        /\ Within(db, FoodsCap)
        /\ Respond("delete_food", food_id, delete_food(db, food_id))

FSearchFoods ==
    \E query \in Queries :
        \E r \in search_foods(db, query) :
            /\ Within(db, FoodsCap)
            /\ Respond("search_foods", [query |-> query], r)

NextFoods == FCreateFood \/ FDeleteFood \/ FSearchFoods

SpecFoods == Init /\ [][NextFoods]_vars

----------------------------------------------------------------------------
(* The admin CLI (cli_app.py): texts typed at the prompts are sequences   *)
(* of characters                                                          *)

\* the tables of the menu: the table of the model and its primary key
CliTables ==
    { [table |-> "users", pk |-> "user_id"],
      [table |-> "exercises", pk |-> "exercise_id"],
      [table |-> "foods", pk |-> "food_id"],
      [table |-> "sleep", pk |-> "sleep_id"],
      [table |-> "workouts", pk |-> "workout_id"],
      [table |-> "meals", pk |-> "meal_id"],
      [table |-> "meal_items", pk |-> "meal_item_id"] }

DecimalDigits == <<"0", "1", "2", "3", "4", "5", "6", "7", "8", "9">>

\* characters for which str.isdigit() holds and int() raises ValueError
SuperscriptDigits == {"²"}

RECURSIVE Strip(_)
\* str.strip()
Strip(s) ==
    IF s = <<>> THEN s
    ELSE IF Head(s) = " " THEN Strip(Tail(s))
    ELSE IF s[Len(s)] = " " THEN Strip(SubSeq(s, 1, Len(s) - 1))
    ELSE s

\* str.isdigit()
IsDigit(s) ==
    /\ s # <<>>
    /\ \A i \in DOMAIN s :
          \/ \E n \in DOMAIN DecimalDigits : DecimalDigits[n] = s[i]
          \/ s[i] \in SuperscriptDigits

RECURSIVE IntOf(_)
\* int(s) of decimal digits
IntOf(s) ==
    IF s = <<>> THEN 0
    ELSE 10 * IntOf(SubSeq(s, 1, Len(s) - 1))
         + (CHOOSE n \in DOMAIN DecimalDigits : DecimalDigits[n] = s[Len(s)]) - 1

\* db.delete(row); db.commit(): the row and the rows of its cascades
DeleteRow(d, table, row) ==
    CASE table = "users" -> CascadeUser(d, row)
      [] table = "exercises" ->
            [d EXCEPT !.exercises = @ \ {row},
                      !.workout_sets = {s \in @ : s.exercise_id # row.exercise_id}]
      [] table = "foods" -> CascadeFood(d, row)
      [] table = "sleep" -> [d EXCEPT !.sleep = @ \ {row}]
      [] table = "workouts" -> CascadeWorkouts(d, {row})
      [] table = "meals" -> CascadeMeals(d, {row})
      [] table = "meal_items" -> [d EXCEPT !.meal_items = @ \ {row}]

\* delete_one without the confirmation prompt
delete_one_NoConfirm(d, table, pk_input, confirm) ==
    LET pk == Strip(pk_input)
    IN IF ~IsDigit(pk)
       THEN Result(d, 0, "Invalid ID; must be an integer.")
       ELSE IF \E i \in DOMAIN pk : pk[i] \in SuperscriptDigits
       THEN Result(d, 0, "ValueError")
       ELSE LET rows == {r \in d[table.table] : r[table.pk] = IntOf(pk)}
            IN IF rows = {}
               THEN Result(d, 0, "not found.")
               ELSE Result(DeleteRow(d, table.table, The(rows)), 0, "Deleted")

\* the status of a result is 0: the CLI sends no request
delete_one(d, table, pk_input, confirm) ==
    LET pk == Strip(pk_input)
    IN IF ~IsDigit(pk)
       THEN Result(d, 0, "Invalid ID; must be an integer.")
       ELSE IF \E i \in DOMAIN pk : pk[i] \in SuperscriptDigits
       THEN Result(d, 0, "ValueError")
       ELSE LET rows == {r \in d[table.table] : r[table.pk] = IntOf(pk)}
            IN IF rows = {}
               THEN Result(d, 0, "not found.")
               ELSE IF Lower(Strip(confirm)) # <<"y", "e", "s">>
               THEN Result(d, 0, "Delete cancelled.")
               ELSE Result(DeleteRow(d, table.table, The(rows)), 0, "Deleted")

CliCap == Caps(CliUsers, StoreRows)

\* the texts typed at the id prompt
PkInputs ==
    { <<"1">>, <<" ", "2", " ">>, <<"0", "1">>, <<"a">>, <<>>, <<"-", "1">>,
      <<"1", " ", "2">>, <<"²">> }

\* the texts typed at the confirmation prompt
Confirmations ==
    { <<"y", "e", "s">>, <<" ", "Y", "E", "S", " ">>, <<"y">>, <<"n", "o">>, <<>> }

CLogin ==
    \E user_in \in LoginInputs :
        /\ Within(login(db, user_in).db, CliCap)
        /\ Respond("login", user_in, login(db, user_in))

CCreateSleep ==
    \E user_id \in 1..CliUsers :
        LET sleep_in == [user_id |-> user_id, start_time |-> 1, end_time |-> 2,
                         quality_score |-> NoneInt]
        IN /\ Within(create_sleep(db, sleep_in).db, CliCap)
           /\ Respond("create_sleep", sleep_in, create_sleep(db, sleep_in))

CCreateFood ==
    /\ Within(create_food(db, StoreFoodInput).db, CliCap)
    /\ Respond("create_food", StoreFoodInput, create_food(db, StoreFoodInput))

CDeleteOne ==
    \E table \in CliTables, pk_input \in PkInputs, confirm \in Confirmations :
        /\ Within(db, CliCap)
        /\ Respond("delete_one",
                   [table |-> table, pk_input |-> pk_input, confirm |-> confirm],
                   delete_one(db, table, pk_input, confirm))

NextCli == CLogin \/ CCreateSleep \/ CCreateFood \/ CDeleteOne

SpecCli == Init /\ [][NextCli]_vars

----------------------------------------------------------------------------
(* The seed script (seed_data.py 29-42): clear_existing_data, statement   *)
(* by statement, on a database filled through the API. The script runs    *)
(* alone: no request is served between its first statement and its commit *)

\* the tables whose rows hold a foreign key (ON DELETE CASCADE) to a table
Referencing ==
    [users |-> {"sleep", "workouts", "meals"},
     workouts |-> {"workout_sets"}, exercises |-> {"workout_sets"},
     meals |-> {"meal_items"}, foods |-> {"meal_items"},
     sleep |-> {}, workout_sets |-> {}, meal_items |-> {}]

RECURSIVE BulkDelete(_, _)
\* DELETE FROM t for the tables ts, and from the tables that reference them
BulkDelete(d, ts) ==
    IF ts = {} THEN d
    ELSE LET t == CHOOSE x \in ts : TRUE
         IN BulkDelete([d EXCEPT ![t] = {}], (ts \ {t}) \cup Referencing[t])

\* the statements in an order that starts with the users
ClearOrder_UsersFirst ==
    <<"users", "meal_items", "meals", "workout_sets", "workouts", "sleep", "foods",
      "exercises">>

\* the tables of the session.query(...).delete() statements, in their order
ClearOrder ==
    <<"meal_items", "meals", "workout_sets", "workouts", "sleep", "foods",
      "exercises", "users">>

SeedCap == Caps(CliUsers, StoreRows)

ZLogin ==
    \E user_in \in LoginInputs :
        /\ seed = 0
        /\ Within(login(db, user_in).db, SeedCap)
        /\ Respond("login", user_in, login(db, user_in))

ZCreateSleep ==
    LET sleep_in == [user_id |-> 1, start_time |-> 1, end_time |-> 2,
                     quality_score |-> NoneInt]
    IN /\ seed = 0
       /\ Within(create_sleep(db, sleep_in).db, SeedCap)
       /\ Respond("create_sleep", sleep_in, create_sleep(db, sleep_in))

ZCreateWorkout ==
    LET workout_in == [user_id |-> 1, start_time |-> 1, end_time |-> 2, label |-> "Push"]
    IN /\ seed = 0
       /\ Within(create_workout(db, workout_in).db, SeedCap)
       /\ Respond("create_workout", workout_in, create_workout(db, workout_in))

ZCreateWorkoutSet ==
    LET set_in == [workout_id |-> 1, exercise_id |-> 1, num_reps |-> 10,
                   weight_amount |-> 50, set_order |-> 1]
    IN /\ seed = 0
       /\ Within(create_workout_set(db, set_in).db, SeedCap)
       /\ Respond("create_workout_set", set_in, create_workout_set(db, set_in))

ZCreateFood ==
    /\ seed = 0
    /\ Within(create_food(db, StoreFoodInput).db, SeedCap)
    /\ Respond("create_food", StoreFoodInput, create_food(db, StoreFoodInput))

ZCreateMeal ==
    LET meal_in == [user_id |-> 1, time_of_meal |-> 1, meal_name |-> "Lunch"]
    IN /\ seed = 0
       /\ Within(create_meal(db, meal_in).db, SeedCap)
       /\ Respond("create_meal", meal_in, create_meal(db, meal_in))

ZCreateMealItem ==
    LET item_in == [meal_id |-> 1, food_id |-> 1, quantity |-> 2]
    IN /\ seed = 0
       /\ Within(create_meal_item(db, item_in).db, SeedCap)
       /\ Respond("create_meal_item", item_in, create_meal_item(db, item_in))

\* main() calls clear_existing_data
ZClearStart ==
    /\ seed = 0
    /\ seed' = 1
    /\ UNCHANGED <<db, resp, session, screen, calls>>

\* the next session.query(...).delete()
ZClearDelete ==
    /\ seed \in DOMAIN ClearOrder
    /\ db' = BulkDelete(db, {ClearOrder[seed]})
    /\ seed' = seed + 1
    /\ UNCHANGED <<resp, session, screen, calls>>

\* session.commit()
ZClearCommit ==
    /\ seed = Len(ClearOrder) + 1
    /\ seed' = 0
    /\ resp' = [op |-> "clear_existing_data", args |-> <<>>, status |-> 0,
                body |-> <<>>]
    /\ UNCHANGED <<db, session, screen, calls>>

NextSeed ==
    \/ ZLogin \/ ZCreateSleep \/ ZCreateWorkout \/ ZCreateWorkoutSet
    \/ ZCreateFood \/ ZCreateMeal \/ ZCreateMealItem
    \/ ZClearStart \/ ZClearDelete \/ ZClearCommit

SpecSeed == Init /\ [][NextSeed]_vars

----------------------------------------------------------------------------
(* Requests served at the same time (main.py, models.py): a worker runs a *)
(* create in two steps, the lookups of the handler and then db.add with   *)
(* db.commit, where the database checks the constraints of the tables;    *)
(* steps of other requests come between the two. calls[i] is the request  *)
(* of worker i: pc is "insert" between the two steps, "done" after the    *)
(* response.                                                              *)

CreateOps ==
    {"create_sleep", "create_workout", "create_meal", "create_workout_set",
     "create_meal_item"}

TableOf(op) ==
    CASE op = "create_sleep" -> "sleep"
      [] op = "create_workout" -> "workouts"
      [] op = "create_meal" -> "meals"
      [] op = "create_workout_set" -> "workout_sets"
      [] op = "create_meal_item" -> "meal_items"
      [] op \in {"login", "create_user"} -> "users"

\* the handler as a whole
Handler(d, op, args) ==
    CASE op = "create_sleep" -> create_sleep(d, args)
      [] op = "create_workout" -> create_workout(d, args)
      [] op = "create_meal" -> create_meal(d, args)
      [] op = "create_workout_set" -> create_workout_set(d, args)
      [] op = "create_meal_item" -> create_meal_item(d, args)
      [] op = "login" -> login(d, args)
      [] op = "create_user" -> create_user(d, args)

\* the FOREIGN KEY and UNIQUE constraints of the row's table (models.py)
ConstraintsHold(d, op, args) ==
    CASE op \in {"create_sleep", "create_workout", "create_meal"} ->
            GetUser(d, args.user_id) # {}
      [] op = "create_workout_set" ->
            GetWorkout(d, args.workout_id) # {} /\ GetExercise(d, args.exercise_id) # {}
      [] op = "create_meal_item" ->
            GetMeal(d, args.meal_id) # {} /\ GetFood(d, args.food_id) # {}
      [] op \in {"login", "create_user"} ->
            \A u \in d.users : u.email # args.email

\* the row of db.add(...)
NewRow(d, op, args) ==
    CASE op = "create_sleep" ->
            [sleep_id |-> NextId(d, "sleep"), user_id |-> args.user_id,
             start_time |-> args.start_time, end_time |-> args.end_time,
             quality_score |-> args.quality_score]
      [] op = "create_workout" ->
            [workout_id |-> NextId(d, "workouts"), user_id |-> args.user_id,
             start_time |-> args.start_time, end_time |-> args.end_time,
             label |-> args.label]
      [] op = "create_meal" ->
            [meal_id |-> NextId(d, "meals"), user_id |-> args.user_id,
             time_of_meal |-> args.time_of_meal, meal_name |-> args.meal_name]
      [] op = "create_workout_set" ->
            [set_id |-> NextId(d, "workout_sets"), workout_id |-> args.workout_id,
             exercise_id |-> args.exercise_id, num_reps |-> args.num_reps,
             weight_amount |-> args.weight_amount, set_order |-> args.set_order]
      [] op = "create_meal_item" ->
            [meal_item_id |-> NextId(d, "meal_items"), meal_id |-> args.meal_id,
             food_id |-> args.food_id, quantity |-> args.quantity]
      [] op \in {"login", "create_user"} ->
            [user_id |-> NextId(d, "users"), email |-> args.email, name |-> args.name,
             surname |-> args.surname, location |-> args.location]

\* an INSERT on tables without constraints
Insert_NoConstraints(d, op, args) ==
    LET row == NewRow(d, op, args)
    IN Result([d EXCEPT ![TableOf(op)] = @ \cup {row}, !.seq = Bump(d, TableOf(op))],
              OK, row)

\* db.add(row); db.commit(): the INSERT takes the next value of the
\* sequence; a violated constraint raises IntegrityError, which no handler
\* catches, and the transaction is rolled back
Insert(d, op, args) ==
    IF ~ConstraintsHold(d, op, args)
    THEN Fail([d EXCEPT !.seq = Bump(d, TableOf(op))], ServerError, "IntegrityError")
    ELSE LET row == NewRow(d, op, args)
         IN Result([d EXCEPT ![TableOf(op)] = @ \cup {row},
                             !.seq = Bump(d, TableOf(op))],
                   OK, row)

\* the lookups of the handler find what it asks for and it goes on to db.add
LookupPasses(d, op, args) ==
    IF op \in {"login", "create_user"}
    THEN \A u \in d.users : u.email # args.email
    ELSE Handler(d, op, args).status # NotFound

Done(op, args, r) ==
    [op |-> op, args |-> args, pc |-> "done", status |-> r.status, body |-> r.body]

\* worker i takes the request and runs the handler up to db.add
Lookup(i, op, args) ==
    IF LookupPasses(db, op, args)
    THEN /\ calls' = [calls EXCEPT ![i] = [op |-> op, args |-> args, pc |-> "insert",
                                           status |-> 0, body |-> <<>>]]
         /\ UNCHANGED <<db, resp, session, screen, seed>>
    ELSE LET r == Handler(db, op, args)
         IN /\ db' = r.db
            /\ resp' = [op |-> op, args |-> args, status |-> r.status, body |-> r.body]
            /\ calls' = [calls EXCEPT ![i] = Done(op, args, r)]
            /\ UNCHANGED <<session, screen, seed>>

\* worker i runs db.add and db.commit and responds
Commit(i, r) ==
    /\ db' = r.db
    /\ resp' = [op |-> calls[i].op, args |-> calls[i].args, status |-> r.status,
                body |-> r.body]
    /\ calls' = [calls EXCEPT ![i] = Done(calls[i].op, calls[i].args, r)]
    /\ UNCHANGED <<session, screen, seed>>

----------------------------------------------------------------------------
(* A create of a child next to the delete of its parent *)

RaceCap == Caps(CliUsers, StoreRows)

\* the requests for children of the first user, workout, exercise, meal and food
ChildArgs(op) ==
    CASE op = "create_sleep" ->
            [user_id |-> 1, start_time |-> 1, end_time |-> 2, quality_score |-> NoneInt]
      [] op = "create_workout" ->
            [user_id |-> 1, start_time |-> 1, end_time |-> 2, label |-> "Push"]
      [] op = "create_meal" ->
            [user_id |-> 1, time_of_meal |-> 1, meal_name |-> "Lunch"]
      [] op = "create_workout_set" ->
            [workout_id |-> 1, exercise_id |-> 1, num_reps |-> 10,
             weight_amount |-> 50, set_order |-> 1]
      [] op = "create_meal_item" ->
            [meal_id |-> 1, food_id |-> 1, quantity |-> 2]

KLogin ==
    \E user_in \in LoginInputs :
        /\ Within(login(db, user_in).db, RaceCap)
        /\ Respond("login", user_in, login(db, user_in))

KCreateFood ==
    /\ Within(create_food(db, StoreFoodInput).db, RaceCap)
    /\ Respond("create_food", StoreFoodInput, create_food(db, StoreFoodInput))

KLookup ==
    \E i \in 1..MaxCalls, op \in CreateOps :
        /\ calls[i].pc # "insert"
        /\ Within(db, RaceCap)
        /\ Lookup(i, op, ChildArgs(op))

KInsert ==
    \E i \in 1..MaxCalls :
        /\ calls[i].pc = "insert"
        /\ Within(Insert(db, calls[i].op, calls[i].args).db, RaceCap)
        /\ Commit(i, Insert(db, calls[i].op, calls[i].args))

KDeleteUser ==
    /\ Within(db, RaceCap)
    /\ Respond("delete_user", 1, delete_user(db, 1))

KDeleteWorkout ==
    /\ Within(db, RaceCap)
    /\ Respond("delete_workout", 1, delete_workout(db, 1))

KDeleteMeal ==
    /\ Within(db, RaceCap)
    /\ Respond("delete_meal", 1, delete_meal(db, 1))

KDeleteFood ==
    /\ Within(db, RaceCap)
    /\ Respond("delete_food", 1, delete_food(db, 1))

NextRace ==
    \/ KLogin \/ KCreateFood \/ KLookup \/ KInsert
    \/ KDeleteUser \/ KDeleteWorkout \/ KDeleteMeal \/ KDeleteFood

SpecRace == Init /\ [][NextRace]_vars

----------------------------------------------------------------------------
(* Two requests for one email *)

LoginsCap == Caps(MaxUsers, StoreRows)

GLookup ==
    \E i \in 1..MaxCalls, op \in {"login", "create_user"}, user_in \in UserInputs :
        /\ calls[i].pc # "insert"
        /\ Within(db, LoginsCap)
        /\ Lookup(i, op, user_in)

GInsert ==
    \E i \in 1..MaxCalls :
        /\ calls[i].pc = "insert"
        /\ Within(Insert(db, calls[i].op, calls[i].args).db, LoginsCap)
        /\ Commit(i, Insert(db, calls[i].op, calls[i].args))

NextLogins == GLookup \/ GInsert

SpecLogins == Init /\ [][NextLogins]_vars

----------------------------------------------------------------------------
(* The frontend (app.py): a script run is the whole script executed for   *)
(* one event of the browser; st.rerun() starts the script again without   *)
(* an event. A run works on a context c: the database, the last response, *)
(* the session, the requests sent and those answered, the page rendered   *)
(* and the lists that get_all_foods and get_all_exercises returned. up    *)
(* tells whether the backend can be reached during the run.               *)

\* SELECT * FROM foods ORDER BY food_name ASC
get_foods_all(d) == { Result(d, OK, o) : o \in OrderByName(d.foods) }

\* requests.Response.ok
Ok(status) == status < BadRequest

Received(c, op, args, r) ==
    [c EXCEPT !.db = r.db,
              !.resp = [op |-> op, args |-> args, status |-> r.status, body |-> r.body],
              !.sent = Append(@, op),
              !.received = Append(@, op)]

get_all_exercises(c, up) ==
    IF "exercises" \in c.session.keys /\ c.session.exercises # Nothing
    THEN [c EXCEPT !.exercises = c.session.exercises]
    ELSE \* the backend has no route /exercises/all: the answer is 404
         LET c1 == IF up
                   THEN Received(c, "exercises_all", <<>>, Fail(c.db, NotFound, "Not Found"))
                   ELSE [c EXCEPT !.sent = Append(@, "exercises_all")]
         IN [c1 EXCEPT !.session = SetItem(@, "exercises", Some(<<>>)),
                       !.exercises = Some(<<>>)]

\* get_all_foods without the test of the session: every call asks the backend
get_all_foods_NoCache(c, up) ==
    IF ~up
    THEN {[c EXCEPT !.sent = Append(@, "get_foods_all"),
                    !.session = SetItem(@, "foods", Some(<<>>)),
                    !.foods = Some(<<>>)]}
    ELSE { LET data == IF Ok(r.status) THEN r.body ELSE <<>>
           IN [Received(c, "get_foods_all", <<>>, r)
                 EXCEPT !.session = SetItem(@, "foods", Some(data)),
                        !.foods = Some(data)] :
           r \in get_foods_all(c.db) }

get_all_foods(c, up) ==
    IF "foods" \in c.session.keys /\ c.session.foods # Nothing
    THEN {[c EXCEPT !.foods = c.session.foods]}
    ELSE IF ~up
    THEN {[c EXCEPT !.sent = Append(@, "get_foods_all"),
                    !.session = SetItem(@, "foods", Some(<<>>)),
                    !.foods = Some(<<>>)]}
    ELSE { LET data == IF Ok(r.status) THEN r.body ELSE <<>>
           IN [Received(c, "get_foods_all", <<>>, r)
                 EXCEPT !.session = SetItem(@, "foods", Some(data)),
                        !.foods = Some(data)] :
           r \in get_foods_all(c.db) }

\* user.get("user_id") or user.get("id"), of st.session_state["user"] or {}
UserIdOf(s) == IF s.user = Nothing THEN 0 ELSE The(s.user).user_id

NoEvent == [kind |-> "rerun"]

Pages == {"dashboard", "workout_form", "meal_form", "food_form", "sleep_form"}

RECURSIVE Routing(_, _, _)

\* a log out that forgets the user and keeps the rest of the session
LogOut_UserOnly(c, up) ==
    Routing([c EXCEPT !.session = SetItem(SetItem(@, "authenticated", FALSE),
                                          "user", Nothing)],
            NoEvent, up)

\* st.session_state.clear(); st.rerun()
LogOut(c, up) == Routing([c EXCEPT !.session = ClearedSession], NoEvent, up)

\* st.session_state["page"] = page; st.rerun()
GoTo(c, page, up) ==
    Routing([c EXCEPT !.session = SetItem(@, "page", page)], NoEvent, up)

login_page(c, ev, up) ==
    IF ev.kind # "login"
    THEN {[c EXCEPT !.rendered = "login"]}
    ELSE IF ev.email = "" \/ ev.first_name = "" \/ ev.last_name = ""
    THEN {[c EXCEPT !.rendered = "login"]}
    ELSE IF ~up
    THEN {[c EXCEPT !.sent = Append(@, "login"), !.rendered = "login"]}
    ELSE LET payload == [email |-> ev.email, name |-> ev.first_name,
                         surname |-> ev.last_name, location |-> None]
             r == login(c.db, payload)
             c1 == Received(c, "login", payload, r)
         IN IF r.status = OK
            THEN Routing([c1 EXCEPT !.session =
                            SetItem(SetItem(SetItem(@, "authenticated", TRUE),
                                            "user", Some(r.body)),
                                    "page", "dashboard")],
                         NoEvent, up)
            ELSE {[c1 EXCEPT !.rendered = "login"]}

\* the buttons come before the summary charts
dashboard(c, ev, up) ==
    IF ev.kind = "logout" THEN LogOut(c, up)
    ELSE IF ev.kind = "goto" THEN GoTo(c, ev.page, up)
    ELSE {[c EXCEPT !.rendered = "dashboard",
                    !.sent = IF UserIdOf(c.session) # 0
                             THEN Append(@, "user_summary") ELSE @,
                    !.received = IF UserIdOf(c.session) # 0 /\ up
                                 THEN Append(@, "user_summary") ELSE @]}

\* a form page up to its "Back to dashboard" button, which is its last widget
FormPage(c, page, ev, up) ==
    IF ev.kind = "back" THEN GoTo(c, "dashboard", up)
    ELSE {[c EXCEPT !.rendered = page]}

workout_page(c, ev, up) ==
    IF ev.kind = "logout" THEN LogOut(c, up)
    ELSE IF UserIdOf(c.session) = 0 THEN FormPage(c, "workout_form", ev, up)
    ELSE FormPage(get_all_exercises(c, up), "workout_form", ev, up)

meal_page(c, ev, up) ==
    IF ev.kind = "logout" THEN LogOut(c, up)
    ELSE IF UserIdOf(c.session) = 0 THEN FormPage(c, "meal_form", ev, up)
    ELSE UNION { FormPage(c1, "meal_form", ev, up) : c1 \in get_all_foods(c, up) }

sleep_page(c, ev, up) ==
    IF ev.kind = "logout" THEN LogOut(c, up)
    ELSE FormPage(c, "sleep_form", ev, up)

\* "Save food": the checks of the fields, POST /foods, the reset of the cache
SaveFood(c, ev, up) ==
    IF ev.food_name = "" \/ ev.serving_size <= 0 THEN c
    ELSE IF ~up THEN [c EXCEPT !.sent = Append(@, "create_food")]
    ELSE LET payload == [food_name |-> ev.food_name, calories |-> ev.calories,
                         carbs |-> 0, fats |-> 0, protein |-> 0, sugar |-> 0,
                         category |-> IF ev.category = "" THEN "Uncategorized"
                                      ELSE ev.category,
                         serving_size_grams |-> ev.serving_size]
             r == create_food(c.db, payload)
             c1 == Received(c, "create_food", payload, r)
         IN IF Ok(r.status)
            THEN [c1 EXCEPT !.session = SetItem(@, "foods", Nothing)]
            ELSE c1

food_form(c, ev, up) ==
    IF ev.kind = "logout" THEN LogOut(c, up)
    ELSE IF ev.kind = "save_food"
    THEN {[SaveFood(c, ev, up) EXCEPT !.rendered = "food_form"]}
    ELSE FormPage(c, "food_form", ev, up)

\* the script from its top: the defaults of the session, then the routing
Routing(c0, ev, up) ==
    LET c == [c0 EXCEPT !.session = SessionState(@)]
    IN IF ~c.session.authenticated THEN login_page(c, ev, up)
       ELSE IF c.session.page = "dashboard" THEN dashboard(c, ev, up)
       ELSE IF c.session.page = "workout_form" THEN workout_page(c, ev, up)
       ELSE IF c.session.page = "meal_form" THEN meal_page(c, ev, up)
       ELSE IF c.session.page = "food_form" THEN food_form(c, ev, up)
       ELSE IF c.session.page = "sleep_form" THEN sleep_page(c, ev, up)
       ELSE dashboard([c EXCEPT !.session = SetItem(@, "page", "dashboard")], ev, up)

----------------------------------------------------------------------------
(* One browser session: the events of its pages *)

SessionCap == Caps(MaxUsers, MaxRows)

\* the texts typed into the login page; the location is not asked for
LoginForms ==
    { [kind |-> "login", email |-> e, first_name |-> "Ann", last_name |-> "Lee"] :
        e \in Emails \cup {""} }

FoodForms ==
    { [kind |-> "save_food", food_name |-> n, calories |-> 3, category |-> "",
       serving_size |-> g] :
        n \in {"", "Rice", "rice cake"}, g \in {0, 100} }

\* the context at the start of a script run
Context ==
    [db |-> db, resp |-> resp, session |-> session, sent |-> <<>>,
     received |-> <<>>, rendered |-> "", foods |-> Nothing, exercises |-> Nothing]

\* the run ends in context c; run is the parity of the number of script
\* runs of the session
Shown(ev, c) ==
    /\ db' = c.db
    /\ resp' = c.resp
    /\ session' = c.session
    /\ screen' = [run |-> 1 - screen.run, event |-> ev.kind, rendered |-> c.rendered, sent |-> c.sent,
                  received |-> c.received, foods |-> c.foods,
                  exercises |-> c.exercises]
    /\ UNCHANGED <<seed, calls>>

\* a widget other than a button changes: the script runs again
XRerun ==
    \E up \in BOOLEAN :
        \E c \in Routing(Context, NoEvent, up) :
            /\ Within(c.db, SessionCap)
            /\ Shown(NoEvent, c)

XLogin ==
    \E ev \in LoginForms, up \in BOOLEAN :
        \E c \in Routing(Context, ev, up) :
            /\ screen.rendered = "login"
            /\ Within(c.db, SessionCap)
            /\ Shown(ev, c)

XLogout ==
    \E up \in BOOLEAN :
        \E c \in Routing(Context, [kind |-> "logout"], up) :
            /\ screen.rendered \in Pages
            /\ Within(c.db, SessionCap)
            /\ Shown([kind |-> "logout"], c)

XGoTo ==
    \E page \in Pages \ {"dashboard"}, up \in BOOLEAN :
        \E c \in Routing(Context, [kind |-> "goto", page |-> page], up) :
            /\ screen.rendered = "dashboard"
            /\ Within(c.db, SessionCap)
            /\ Shown([kind |-> "goto"], c)

XBack ==
    \E up \in BOOLEAN :
        \E c \in Routing(Context, [kind |-> "back"], up) :
            /\ screen.rendered \in Pages \ {"dashboard"}
            /\ Within(c.db, SessionCap)
            /\ Shown([kind |-> "back"], c)

XSaveFood ==
    \E ev \in FoodForms, up \in BOOLEAN :
        \E c \in Routing(Context, ev, up) :
            /\ screen.rendered = "food_form"
            /\ Within(c.db, SessionCap)
            /\ Shown(ev, c)

\* another client saves a food
XCreateFood ==
    /\ Within(create_food(db, StoreFoodInput).db, SessionCap)
    /\ Respond("create_food", StoreFoodInput, create_food(db, StoreFoodInput))

NextSession ==
    XRerun \/ XLogin \/ XLogout \/ XGoTo \/ XBack \/ XSaveFood \/ XCreateFood

SpecSession == Init /\ [][NextSession]_vars

----------------------------------------------------------------------------
(* Entries: login, the sleep endpoint called directly, the sleep form and  *)
(* the workout form, with at most MaxRows sleep and workout rows in all    *)

\* the quality_score of a direct request: left out, the ends of 1..10 and
\* their neighbours
QualityScores == {NoneInt, 0, 1, 10, 11}

\* the slider of the sleep form
SliderMin == 1
SliderMax == 10

\* the times of day of the time inputs
TimesOfDay == 0..(DayLen - 1)

EntryWithin(d) ==
    /\ d.seq["users"] <= MaxUsers + 1
    /\ (d.seq["sleep"] - 1) + (d.seq["workouts"] - 1) <= MaxRows
    /\ d.seq["workout_sets"] <= MaxRows + 1

SleepForms ==
    { [user_id |-> u, sleep_date |-> 1, start_time_val |-> s, end_time_val |-> e,
       quality |-> IF s = 0 THEN SliderMin ELSE SliderMax] :
        u \in 0..MaxUsers, s \in TimesOfDay, e \in TimesOfDay }

\* workout forms with one set of the first exercise
EntryWorkoutForms ==
    { [user_id |-> u, workout_date |-> 1, start_time_val |-> s, end_time_val |-> e,
       label |-> "Push",
       sets_data |-> <<[exercise_id |-> 1, num_reps |-> 10, weight_amount |-> 50]>>] :
        u \in 1..MaxUsers, s \in TimesOfDay, e \in TimesOfDay }

ELogin ==
    \E user_in \in LoginInputs :
        /\ EntryWithin(login(db, user_in).db)
        /\ Respond("login", user_in, login(db, user_in))

ECreateSleep ==
    \E user_id \in 1..MaxUsers, q \in QualityScores :
        LET sleep_in == [user_id |-> user_id, start_time |-> 1, end_time |-> 2,
                         quality_score |-> q]
        IN /\ EntryWithin(create_sleep(db, sleep_in).db)
           /\ Respond("create_sleep", sleep_in, create_sleep(db, sleep_in))

ESleepForm ==
    \E form \in SleepForms :
        /\ EntryWithin(sleep_form(db, form).db)
        /\ Respond("sleep_form", form, sleep_form(db, form))

EWorkoutForm ==
    \E form \in EntryWorkoutForms :
        /\ EntryWithin(workout_form(db, form).db)
        /\ Respond("workout_form", form, workout_form(db, form))

NextEntry == ELogin \/ ECreateSleep \/ ESleepForm \/ EWorkoutForm

SpecEntry == Init /\ [][NextEntry]_vars

----------------------------------------------------------------------------
(* Recent workouts: login, workouts, sets and the recent listing *)

RecentCap == Caps(MaxUsers, MaxRows)

RLogin ==
    \E user_in \in LoginInputs :
        /\ Within(login(db, user_in).db, RecentCap)
        /\ Respond("login", user_in, login(db, user_in))

RCreateWorkout ==
    \E user_id \in 1..MaxUsers, t \in ViewTimes :
        LET workout_in == [user_id |-> user_id, start_time |-> t, end_time |-> t + 1,
                           label |-> IF t = 1 THEN None ELSE "Legs"]
        IN /\ Within(create_workout(db, workout_in).db, RecentCap)
           /\ Respond("create_workout", workout_in, create_workout(db, workout_in))

RCreateWorkoutSet ==
    \E workout_id \in 1..MaxRows :
        LET set_in == [workout_id |-> workout_id, exercise_id |-> 1,
                       num_reps |-> 10, weight_amount |-> 50, set_order |-> 1]
        IN /\ Within(create_workout_set(db, set_in).db, RecentCap)
           /\ Respond("create_workout_set", set_in, create_workout_set(db, set_in))

RWorkoutsRecent ==
    \E user_id \in UserIds, days \in {NoneInt, DaysMax} :
        \E r \in get_workouts_recent(db, user_id, DaysQuery(days), ViewNow) :
            /\ Within(db, RecentCap)
            /\ Respond("get_workouts_recent",
                       [user_id |-> user_id, days |-> days, now |-> ViewNow], r)

NextRecent == RLogin \/ RCreateWorkout \/ RCreateWorkoutSet \/ RWorkoutsRecent

SpecRecent == Init /\ [][NextRecent]_vars

----------------------------------------------------------------------------
(* Properties of the user endpoints *)

UsersByEmail(d, email) == {u \in d.users : u.email = email}

\* C3: after delete_user(u) succeeds no Sleep, Workout or Meal row of u
\* remains, nor any WorkoutSet or MealItem of u's workouts and meals; every
\* listing for u and the summary are empty; the rows of every other user,
\* and the catalogs, are unchanged.
C3_DeleteUserCascades ==
    [][ (resp'.op = "delete_user" /\ resp'.status = OK) =>
        LET u == resp'.args
            uw == {w.workout_id : w \in {x \in db.workouts : x.user_id = u}}
            um == {m.meal_id : m \in {x \in db.meals : x.user_id = u}}
        IN /\ GetUser(db', u) = {}
           /\ \A s \in db'.sleep : s.user_id # u
           /\ \A w \in db'.workouts : w.user_id # u
           /\ \A m \in db'.meals : m.user_id # u
           /\ \A s \in db'.workout_sets : s.workout_id \notin uw
           /\ \A i \in db'.meal_items : i.meal_id \notin um
           /\ get_sleep_all(db', u) = {<<>>}
           /\ get_workouts_all(db', u) = {<<>>}
           /\ get_meals_all(db', u) = {<<>>}
           /\ \A days \in {DaysMin, DaysDefault, DaysMax}, now \in 0..(MaxTime + DayLen) :
                \A sleeps \in SummarySleeps(db', u, days, now) :
                    /\ user_summary(db', u, days, now, sleeps).status = OK
                    /\ user_summary(db', u, days, now, sleeps).body =
                         [sleep |-> <<>>, workouts_per_day |-> <<>>, calories_per_day |-> <<>>]
           /\ db'.users = {x \in db.users : x.user_id # u}
           /\ db'.sleep = {s \in db.sleep : s.user_id # u}
           /\ db'.workouts = {w \in db.workouts : w.user_id # u}
           /\ db'.meals = {m \in db.meals : m.user_id # u}
           /\ db'.workout_sets = {s \in db.workout_sets : s.workout_id \notin uw}
           /\ db'.meal_items = {i \in db.meal_items : i.meal_id \notin um}
           /\ db'.foods = db.foods
           /\ db'.exercises = db.exercises
      ]_vars

\* a user was deleted whose workout and set are gone, while another user's
\* meal and meal item are still there
C3_Witness ==
    /\ resp.op = "delete_user" /\ resp.status = OK
    /\ db.seq["workouts"] > 1 /\ db.seq["workout_sets"] > 1
    /\ db.workouts = {} /\ db.workout_sets = {}
    /\ db.meals # {} /\ db.meal_items # {}

\* C5: a create of an owned child whose user, workout, exercise, meal or
\* food does not exist fails with NotFound and changes no table.
C5_CreateChecksReferences ==
    [][ /\ (resp'.op \in {"create_sleep", "create_workout", "create_meal"}
            /\ GetUser(db, resp'.args.user_id) = {})
           => (resp'.status = NotFound /\ db' = db)
        /\ (resp'.op = "create_workout_set"
            /\ (GetWorkout(db, resp'.args.workout_id) = {}
                \/ GetExercise(db, resp'.args.exercise_id) = {}))
           => (resp'.status = NotFound /\ db' = db)
        /\ (resp'.op = "create_meal_item"
            /\ (GetMeal(db, resp'.args.meal_id) = {}
                \/ GetFood(db, resp'.args.food_id) = {}))
           => (resp'.status = NotFound /\ db' = db)
      ]_vars

\* a set for an existing workout was refused for its exercise
C5_Witness ==
    /\ resp.op = "create_workout_set" /\ resp.status = NotFound
    /\ GetWorkout(db, resp.args.workout_id) # {}
    /\ GetExercise(db, resp.args.exercise_id) = {}

\* C6: login with a known email returns the stored row and changes
\* nothing, whatever name, surname and location the request carries; with
\* an unknown email it adds exactly one row holding the supplied fields;
\* two logins in a row with one email return the same user_id.
C6_LoginReturnsExisting ==
    [][ resp'.op = "login" =>
        /\ resp'.status = OK
        /\ IF UsersByEmail(db, resp'.args.email) # {}
           THEN /\ db' = db
                /\ resp'.body \in UsersByEmail(db, resp'.args.email)
           ELSE /\ resp'.body \notin db.users
                /\ db'.users = db.users \cup {resp'.body}
                /\ GetUser(db, resp'.body.user_id) = {}
                /\ resp'.body.email = resp'.args.email
                /\ resp'.body.name = resp'.args.name
                /\ resp'.body.surname = resp'.args.surname
                /\ resp'.body.location = resp'.args.location
        /\ (resp.op = "login" /\ resp.args.email = resp'.args.email)
           => resp'.body.user_id = resp.body.user_id
      ]_vars

\* a login carrying other profile fields than the stored ones got the
\* stored row back
C6_Witness ==
    /\ resp.op = "login" /\ resp.status = OK
    /\ resp.body.name # resp.args.name
    /\ resp.body \in db.users

\* C7: create_user with an email that already has a User fails with the
\* duplicate-email error and leaves the users table unchanged; no two User
\* rows ever have the same email.
C7_DuplicateEmailRefused ==
    /\ [](\A u, v \in db.users : u.email = v.email => u = v)
    /\ [][ (resp'.op = "create_user" /\ UsersByEmail(db, resp'.args.email) # {})
           => /\ resp'.status = BadRequest
              /\ resp'.body.detail = "User with this email already exists"
              /\ db' = db
         ]_vars

\* a create_user was refused while two users are stored
C7_Witness ==
    /\ resp.op = "create_user" /\ resp.status = BadRequest
    /\ Cardinality(db.users) = 2

\* the rows a delete endpoint looks up
DeleteTarget(d, op, id) ==
    CASE op = "delete_user" -> GetUser(d, id)
      [] op = "delete_sleep" -> GetSleep(d, id)
      [] op = "delete_workout" -> GetWorkout(d, id)
      [] op = "delete_workout_set" -> GetWorkoutSet(d, id)
      [] op = "delete_food" -> GetFood(d, id)
      [] op = "delete_meal" -> GetMeal(d, id)
      [] op = "delete_meal_item" -> GetMealItem(d, id)

DeleteOps == {"delete_user", "delete_sleep", "delete_workout", "delete_workout_set",
              "delete_food", "delete_meal", "delete_meal_item"}

\* C8: for every entity type, delete by an id without row fails with
\* NotFound and changes no table; delete by an id with a row removes the
\* row and returns a confirmation; a second delete of the id is NotFound.
C8_DeleteById ==
    [][ resp'.op \in DeleteOps =>
        /\ IF DeleteTarget(db, resp'.op, resp'.args) = {}
           THEN resp'.status = NotFound /\ db' = db
           ELSE /\ resp'.status = OK
                /\ DeleteTarget(db', resp'.op, resp'.args) = {}
                /\ "detail" \in DOMAIN resp'.body
        /\ (resp.op = resp'.op /\ resp.args = resp'.args /\ resp.status = OK)
           => (resp'.status = NotFound /\ db' = db)
      ]_vars

\* a meal item that had been created is deleted a second time
C8_Witness ==
    /\ resp.op = "delete_meal_item" /\ resp.status = NotFound
    /\ resp.args < db.seq["meal_items"]
    /\ db.meals # {}

----------------------------------------------------------------------------
(* Properties of the composite creates, the catalog and the summary *)

\* C1: a workout form with a set that references a nonexistent Exercise
\* fails with NotFound and leaves no row of that workout, neither the
\* Workout row nor any of its WorkoutSet rows.
C1_AtomicWorkoutCreate ==
    ( /\ resp.op = "workout_form"
      /\ resp.args.label # ""
      /\ \E i \in DOMAIN resp.args.sets_data :
            GetExercise(db, resp.args.sets_data[i].exercise_id) = {} )
    => /\ resp.status = NotFound
       /\ ~resp.body.all_ok
       /\ GetWorkout(db, resp.body.workout_id) = {}
       /\ \A s \in db.workout_sets : s.workout_id # resp.body.workout_id

\* C2: a meal form either persists the Meal row and all of its MealItem
\* rows, or, when one of the items is refused, none of them.
C2_AtomicMealCreate ==
    ( resp.op = "meal_form" /\ resp.args.meal_name # "" /\ resp.status # 0 ) =>
        \/ /\ resp.body.all_ok
           /\ GetMeal(db, resp.body.meal_id) # {}
           /\ Cardinality({i \in db.meal_items : i.meal_id = resp.body.meal_id})
                = Len(resp.args.items)
        \/ /\ ~resp.body.all_ok
           /\ GetMeal(db, resp.body.meal_id) = {}
           /\ \A i \in db.meal_items : i.meal_id # resp.body.meal_id

\* C4: deleting a Food never deletes a MealItem or WorkoutSet: the delete
\* is refused and changes nothing, or the referencing rows stay; the number
\* of MealItem and WorkoutSet rows is the same before and after.
C4_CatalogDeleteKeepsItems ==
    [][ resp'.op = "delete_food" =>
        /\ Cardinality(db'.meal_items) = Cardinality(db.meal_items)
        /\ Cardinality(db'.workout_sets) = Cardinality(db.workout_sets)
        /\ (resp'.status # OK => db' = db)
      ]_vars

\* the user's workouts that start on the date dt
WorkoutsOn(d, user_id, dt) ==
    {w \in d.workouts : w.user_id = user_id /\ DateOf(w.start_time) = dt}

\* reps x weight over all sets of the workouts ws
TotalWeight(d, ws) ==
    LET sets == {s \in d.workout_sets : \E w \in ws : s.workout_id = w.workout_id}
    IN Sum([s \in sets |-> s.num_reps * s.weight_amount], sets)

\* C9: for every date in the lookback window on which the user has a
\* workout, user_summary returns a workouts-per-day entry with the number of
\* the user's workouts of that date and the sum of reps x weight over all
\* their sets.
C9_WorkoutsPerDayEntry ==
    ( resp.op = "user_summary" /\ DaysValid(resp.args.days) ) =>
        \A w \in db.workouts :
            ( w.user_id = resp.args.user_id
              /\ w.start_time >= resp.args.now - resp.args.days * DayLen )
            => /\ resp.status = OK
               /\ \E i \in DOMAIN resp.body.workouts_per_day :
                    LET e == resp.body.workouts_per_day[i]
                        ws == WorkoutsOn(db, resp.args.user_id, DateOf(w.start_time))
                    IN /\ e.date = DateOf(w.start_time)
                       /\ e.count = Cardinality(ws)
                       /\ "total_weight" \in DOMAIN e
                       /\ e.total_weight = TotalWeight(db, ws)

\* the items of the user's meals of the date dt, each with its food
ItemsOn(d, user_id, dt) ==
    { r \in [item : d.meal_items, food : d.foods] :
        /\ r.item.food_id = r.food.food_id
        /\ \E m \in d.meals : /\ m.meal_id = r.item.meal_id
                              /\ m.user_id = user_id
                              /\ DateOf(m.time_of_meal) = dt }

\* the entry of the date dt reports quantity x per-serving value, summed
\* over the items of the user's meals of that date
MacrosMatch(d, user_id, e) ==
    LET its == ItemsOn(d, user_id, e.date)
    IN /\ e.calories = Sum([r \in its |-> r.item.quantity * r.food.calories], its)
       /\ e.carbs = Sum([r \in its |-> r.item.quantity * r.food.carbs], its)
       /\ e.fats = Sum([r \in its |-> r.item.quantity * r.food.fats], its)
       /\ e.protein = Sum([r \in its |-> r.item.quantity * r.food.protein], its)

\* C10: for every date in the lookback window on which the user has meal
\* items, user_summary reports for that date the sum of quantity x
\* per-serving value over all items of all of the user's meals of that
\* date, for calories, carbs, fats and protein.
C10_CaloriesPerDayEntry ==
    ( resp.op = "user_summary" /\ DaysValid(resp.args.days) ) =>
        \A m \in db.meals :
            ( /\ m.user_id = resp.args.user_id
              /\ m.time_of_meal >= resp.args.now - resp.args.days * DayLen
              /\ ItemsOn(db, resp.args.user_id, DateOf(m.time_of_meal)) # {} )
            => /\ resp.status = OK
               /\ \E i \in DOMAIN resp.body.calories_per_day :
                    /\ resp.body.calories_per_day[i].date = DateOf(m.time_of_meal)
                    /\ MacrosMatch(db, resp.args.user_id, resp.body.calories_per_day[i])

----------------------------------------------------------------------------
(* Properties of the summary series and the listings *)

\* the lookback days of a view request
DaysOf(args) == DaysQuery(args.days)

\* the entries es are the rows S, one entry per row, in an order q of the
\* rows that is ascending by start_time
SleepEntriesOf(es, S) ==
    /\ Len(es) = Cardinality(S)
    /\ \E q \in [1..Cardinality(S) -> S] :
          /\ \A x \in S : \E i \in DOMAIN q : q[i] = x
          /\ \A i \in DOMAIN q :
                /\ es[i].date = DateOf(q[i].start_time)
                /\ es[i].hours = q[i].end_time - q[i].start_time
                /\ es[i].quality_score = q[i].quality_score
                /\ (q[i].end_time > q[i].start_time => es[i].hours >= 0)
          /\ \A i, j \in DOMAIN q : i < j => q[i].start_time <= q[j].start_time

\* C11: the sleep series of user_summary has exactly one entry per Sleep
\* row of the user inside the window (two rows of one date give two
\* entries), each with the date of start_time, hours = end_time - start_time
\* and the row's quality_score, hours non-negative when end > start, in
\* ascending order of start_time.
C11_SleepSeries ==
    ( resp.op = "user_summary" /\ DaysValid(DaysOf(resp.args)) ) =>
        /\ resp.status = OK
        /\ SleepEntriesOf(resp.body.sleep,
                          {s \in db.sleep :
                             /\ s.user_id = resp.args.user_id
                             /\ s.start_time >= resp.args.now - DaysOf(resp.args) * DayLen})

\* the number of workouts the entries of a workouts-per-day series count
CountedWorkouts(es) == Sum([i \in DOMAIN es |-> es[i].count], DOMAIN es)

\* C12: the lookback cutoff of user_summary is the instant now - days: a
\* Sleep, Workout or Meal row is in its series if and only if its timestamp
\* is at or after that instant; a row of the cutoff's calendar day that is
\* earlier than the cutoff's time of day is left out.
C12_CutoffInstant ==
    ( resp.op = "user_summary" /\ resp.status = OK ) =>
        LET cutoff == resp.args.now - DaysOf(resp.args) * DayLen
            u == resp.args.user_id
        IN /\ Len(resp.body.sleep) =
                Cardinality({s \in db.sleep : s.user_id = u /\ s.start_time >= cutoff})
           /\ CountedWorkouts(resp.body.workouts_per_day) =
                Cardinality({w \in db.workouts : w.user_id = u /\ w.start_time >= cutoff})
           /\ {resp.body.calories_per_day[i].date : i \in DOMAIN resp.body.calories_per_day} =
                {DateOf(m.time_of_meal) :
                    m \in {x \in db.meals : /\ x.user_id = u
                                             /\ x.time_of_meal >= cutoff
                                             /\ ItemsOn(db, u, DateOf(x.time_of_meal)) # {}}}

EmptySummary == [sleep |-> <<>>, workouts_per_day |-> <<>>, calories_per_day |-> <<>>]

\* C13: user_summary for a user_id without User row does not fail: it
\* returns three empty series and changes no table.
C13_UnknownUserEmptySummary ==
    [][ ( /\ resp'.op = "user_summary"
          /\ DaysValid(DaysOf(resp'.args))
          /\ GetUser(db, resp'.args.user_id) = {} )
        => /\ resp'.status = OK
           /\ resp'.body = EmptySummary
           /\ db' = db
      ]_vars

\* the summary of an unknown user came back empty while other users have
\* a sleep row and a workout
C13_Witness ==
    /\ resp.op = "user_summary" /\ resp.status = OK
    /\ GetUser(db, resp.args.user_id) = {}
    /\ resp.body = EmptySummary
    /\ db.sleep # {} /\ db.workouts # {}

\* the endpoints that take a days parameter
DaysOps == {"user_summary", "get_sleep_recent", "get_workouts_recent", "get_meals_recent"}

\* the user's rows a listing or the summary reads, by the time they start
TimesOfUser(d, op, user_id) ==
    CASE op \in {"user_summary", "get_sleep_recent", "get_sleep_all"} ->
            {<<"sleep", s.sleep_id, s.start_time>> : s \in {x \in d.sleep : x.user_id = user_id}}
      [] op \in {"get_workouts_recent", "get_workouts_all"} ->
            {<<"workout", w.workout_id, w.start_time>> :
                w \in {x \in d.workouts : x.user_id = user_id}}
      [] op \in {"get_meals_recent", "get_meals_all"} ->
            {<<"meal", m.meal_id, m.time_of_meal>> : m \in {x \in d.meals : x.user_id = user_id}}

\* C14: every endpoint with a days parameter refuses days = 0 and days = 91
\* (any value outside 1..90) with a validation error and without touching
\* the tables, accepts every value in 1..90, and uses 7 when days is left
\* out.
C14_DaysValidated ==
    [][ resp'.op \in DaysOps =>
        LET days == resp'.args.days
            rows == TimesOfUser(db, resp'.op, resp'.args.user_id)
        IN /\ (days # NoneInt /\ (days < 1 \/ days > 90))
                => (resp'.status = Unprocessable /\ db' = db)
           /\ (days = NoneInt \/ (days >= 1 /\ days <= 90))
                => resp'.status # Unprocessable
           /\ (days = NoneInt /\ resp'.status = OK /\ resp'.op # "user_summary")
                => Len(resp'.body) =
                     Cardinality({r \in rows : r[3] >= resp'.args.now - 7 * DayLen})
           /\ (days = NoneInt /\ resp'.status = OK /\ resp'.op = "user_summary")
                => Len(resp'.body.sleep) =
                     Cardinality({r \in rows :
                                    DateOf(r[3]) >= DateOf(resp'.args.now - 7 * DayLen)})
      ]_vars

\* a meals listing with days = 91 was refused while the user has a meal
C14_Witness ==
    /\ resp.op = "get_meals_recent" /\ resp.status = Unprocessable
    /\ resp.args.days = 91
    /\ \E m \in db.meals : m.user_id = resp.args.user_id

\* C15: the workouts-per-day series has exactly one entry per distinct
\* calendar date on which the user has a workout inside the window, no entry
\* for a date without workouts, and is strictly ascending by date.
C15_WorkoutsPerDaySeries ==
    ( resp.op = "user_summary" /\ DaysValid(DaysOf(resp.args)) ) =>
        LET dates == {DateOf(w.start_time) :
                        w \in {x \in db.workouts :
                                 /\ x.user_id = resp.args.user_id
                                 /\ x.start_time >= resp.args.now - DaysOf(resp.args) * DayLen}}
        IN /\ resp.status = OK
           /\ Len(resp.body.workouts_per_day) = Cardinality(dates)
           /\ {resp.body.workouts_per_day[i].date : i \in DOMAIN resp.body.workouts_per_day}
                = dates
           /\ \A i, j \in DOMAIN resp.body.workouts_per_day :
                i < j => resp.body.workouts_per_day[i].date < resp.body.workouts_per_day[j].date

Macros == {"calories", "carbs", "fats", "protein"}

\* C16: every entry of the calories-per-day series carries numeric
\* calories, carbs, fats and protein; a sum that is missing, null or zero is
\* reported as 0.0, and no entry has a null macro.
C16_MacrosNeverNull ==
    ( resp.op = "user_summary" /\ resp.status = OK ) =>
        \A i \in DOMAIN resp.body.calories_per_day :
            LET e == resp.body.calories_per_day[i]
                its == ItemsOn(db, resp.args.user_id, e.date)
            IN \A k \in Macros :
                 /\ k \in DOMAIN e
                 /\ e[k] # NoneInt
                 /\ e[k] \in Nat
                 /\ (Sum([r \in its |-> r.item.quantity * r.food[k]], its) = 0 => e[k] = 0)

\* a summary came back with an entry whose fats are reported as 0 next to
\* calories that are not
C16_Witness ==
    /\ resp.op = "user_summary" /\ resp.status = OK
    /\ \E i \in DOMAIN resp.body.calories_per_day :
          /\ resp.body.calories_per_day[i].fats = 0
          /\ resp.body.calories_per_day[i].calories > 0

RecentOps == {"get_sleep_recent", "get_workouts_recent", "get_meals_recent"}
AllOps == {"get_sleep_all", "get_workouts_all", "get_meals_all"}

\* the stored row an entry e of a listing stands for, as in TimesOfUser
ListedRow(d, op, e) ==
    CASE op \in {"get_sleep_recent", "get_sleep_all"} ->
            <<"sleep", e.sleep_id, e.start_time>>
      [] op = "get_workouts_recent" ->
            <<"workout", e.workout_id,
              (CHOOSE w \in d.workouts : w.workout_id = e.workout_id).start_time>>
      [] op = "get_workouts_all" ->
            <<"workout", e.workout.workout_id, e.workout.start_time>>
      [] op \in {"get_meals_recent", "get_meals_all"} ->
            <<"meal", e.meal.meal_id, e.meal.time_of_meal>>

\* the listing es is the rows S, each once, latest first; by_date: latest
\* calendar date first
ListingOf(d, op, es, S, by_date) ==
    /\ Len(es) = Cardinality(S)
    /\ {ListedRow(d, op, es[i]) : i \in DOMAIN es} = S
    /\ \A i, j \in DOMAIN es :
          i < j => IF by_date
                   THEN DateOf(ListedRow(d, op, es[i])[3]) >= DateOf(ListedRow(d, op, es[j])[3])
                   ELSE ListedRow(d, op, es[i])[3] >= ListedRow(d, op, es[j])[3]

\* the series es is ascending by date
AscendingByDate(es) == \A i, j \in DOMAIN es : i < j => es[i].date <= es[j].date

\* the listings and the summary, with the workouts of a recent listing
\* ordered by start time or, workouts_by_date, by calendar date
ListingsHold(workouts_by_date) ==
    /\ (resp.op \in RecentOps /\ DaysValid(DaysOf(resp.args))) =>
          /\ resp.status = OK
          /\ ListingOf(db, resp.op, resp.body,
                       {r \in TimesOfUser(db, resp.op, resp.args.user_id) :
                          r[3] >= resp.args.now - DaysOf(resp.args) * DayLen},
                       workouts_by_date /\ resp.op = "get_workouts_recent")
    /\ resp.op \in AllOps =>
          /\ resp.status = OK
          /\ ListingOf(db, resp.op, resp.body,
                       TimesOfUser(db, resp.op, resp.args.user_id), FALSE)
    /\ (resp.op = "user_summary" /\ resp.status = OK) =>
          /\ AscendingByDate(resp.body.sleep)
          /\ AscendingByDate(resp.body.workouts_per_day)
          /\ AscendingByDate(resp.body.calories_per_day)

\* C18, as claimed: the recent listings return exactly the user's rows
\* with timestamp >= now - days, most recent first; the "all" listings
\* return every row of the user and no row of another user, most recent
\* first; the summary series are ascending.
C18_Listings == ListingsHold(FALSE)

\* C18, amended: as above, but the workouts of a recent listing come latest
\* calendar date first, the workouts of one date in any order.
C18_ListingsByDate == ListingsHold(TRUE)

\* a recent listing returned two workouts of one date, the earlier first
C18_Witness ==
    /\ resp.op = "get_workouts_recent" /\ resp.status = OK
    /\ Len(resp.body) = 2
    /\ resp.body[1].date = resp.body[2].date
    /\ ListedRow(db, resp.op, resp.body[1])[3] < ListedRow(db, resp.op, resp.body[2])[3]

----------------------------------------------------------------------------
(* Properties of the rows over time *)

\* the primary key column of each table
PrimaryKey ==
    [users |-> "user_id", sleep |-> "sleep_id", exercises |-> "exercise_id",
     workouts |-> "workout_id", workout_sets |-> "set_id", foods |-> "food_id",
     meals |-> "meal_id", meal_items |-> "meal_item_id"]

\* the rows of table t with primary key id
RowsWithId(d, t, id) == {r \in d[t] : r[PrimaryKey[t]] = id}

\* C19: entities are write-once: no operation changes an attribute of a
\* row that exists; a row with a given id keeps the attribute values it was
\* created with or is deleted, and the id of a deleted row is not given to
\* another row.
C19_WriteOnce ==
    [][ \A t \in Tables :
          /\ \A r \in db[t] :
                r \in db'[t] \/ RowsWithId(db', t, r[PrimaryKey[t]]) = {}
          /\ \A id \in 1..(db.seq[t] - 1) :
                RowsWithId(db, t, id) = {} => RowsWithId(db', t, id) = {}
          /\ \A r \in db'[t] \ db[t] :
                r[PrimaryKey[t]] = db.seq[t] /\ db'.seq[t] = db.seq[t] + 1
      ]_vars

\* a login that carried another name got the stored row back, after a first
\* user had been deleted and the email registered again
C19_Witness ==
    /\ resp.op = "login" /\ resp.status = OK
    /\ resp.body \in db.users
    /\ resp.body.name # resp.args.name
    /\ resp.body.user_id = 2
    /\ GetUser(db, 1) = {}

\* C20: delete_workout(w) removes w and every WorkoutSet of w, and
\* delete_meal(m) removes m and every MealItem of m; the sets of other
\* workouts, the items of other meals and all User, Exercise and Food rows
\* are unchanged.
C20_DeleteParentCascades ==
    [][ /\ (resp'.op = "delete_workout" /\ resp'.status = OK) =>
            /\ db'.workouts = {w \in db.workouts : w.workout_id # resp'.args}
            /\ db'.workout_sets = {s \in db.workout_sets : s.workout_id # resp'.args}
            /\ db'.meals = db.meals /\ db'.meal_items = db.meal_items
            /\ db'.users = db.users /\ db'.exercises = db.exercises
            /\ db'.foods = db.foods /\ db'.sleep = db.sleep
        /\ (resp'.op = "delete_meal" /\ resp'.status = OK) =>
            /\ db'.meals = {m \in db.meals : m.meal_id # resp'.args}
            /\ db'.meal_items = {i \in db.meal_items : i.meal_id # resp'.args}
            /\ db'.workouts = db.workouts /\ db'.workout_sets = db.workout_sets
            /\ db'.users = db.users /\ db'.exercises = db.exercises
            /\ db'.foods = db.foods /\ db'.sleep = db.sleep
      ]_vars

\* a workout that had a set was deleted with it, while the other workout
\* keeps its set
C20_Witness ==
    /\ resp.op = "delete_workout" /\ resp.status = OK
    /\ db.seq["workout_sets"] = 3
    /\ Cardinality(db.workout_sets) = 1
    /\ Cardinality(db.workouts) = 1
    /\ \A s \in db.workout_sets : GetWorkout(db, s.workout_id) # {}

----------------------------------------------------------------------------
(* Properties of the food search *)

\* the text q occurs in the text s, letter case ignored
ContainsIgnoringCase(s, q) ==
    \E i \in 0..(Len(s) - Len(q)) :
        \A j \in 1..Len(q) : LowerChar(s[i + j]) = LowerChar(q[j])

\* C17: search_foods(q) returns exactly the Foods whose name contains q as
\* a substring, letter case ignored, ordered by name ascending ("chic" over
\* "Chicken Breast" and "Rice" returns only "Chicken Breast"), and refuses
\* an empty query.
C17_SearchFoods ==
    resp.op = "search_foods" =>
        IF resp.args.query = ""
        THEN resp.status = Unprocessable
        ELSE /\ resp.status = OK
             /\ {resp.body[i] : i \in DOMAIN resp.body} =
                  {f \in db.foods :
                     ContainsIgnoringCase(Chars[f.food_name], Chars[resp.args.query])}
             /\ \A i, j \in DOMAIN resp.body :
                  i < j => /\ resp.body[i] # resp.body[j]
                           /\ ~TextLess(Chars[resp.body[j].food_name],
                                        Chars[resp.body[i].food_name])

----------------------------------------------------------------------------
(* Properties of the entries *)

\* C21: every persisted Sleep row has no quality_score or an integer
\* quality_score between 1 and 10; create_sleep persists no row with a
\* score outside that range.
C21_QualityInRange ==
    \A s \in db.sleep :
        s.quality_score = NoneInt \/ (s.quality_score >= 1 /\ s.quality_score <= 10)

\* C24: every sleep entry and every workout saved through the forms has
\* end_time strictly after start_time and at most one day after it: an end
\* entered at or before the start is moved to the next day.
C24_FormEndAfterStart ==
    [][ /\ (resp'.op = "sleep_form" /\ resp'.status = OK) =>
            /\ resp'.body \in db'.sleep
            /\ resp'.body.end_time > resp'.body.start_time
            /\ resp'.body.end_time - resp'.body.start_time <= DayLen
            /\ (resp'.args.end_time_val <= resp'.args.start_time_val
                 => DateOf(resp'.body.end_time) = resp'.args.sleep_date + 1)
        /\ (resp'.op = "workout_form" /\ resp'.body.workout_id # 0) =>
            \A w \in GetWorkout(db', resp'.body.workout_id) :
                /\ w.end_time > w.start_time
                /\ w.end_time - w.start_time <= DayLen
                /\ (resp'.args.end_time_val <= resp'.args.start_time_val
                     => DateOf(w.end_time) = resp'.args.workout_date + 1)
      ]_vars

\* a sleep entry whose wake-up time equals its start time was saved with
\* its end a whole day later, after a workout whose end time is before its
\* start time
C24_Witness ==
    /\ resp.op = "sleep_form" /\ resp.status = OK
    /\ resp.args.end_time_val = resp.args.start_time_val
    /\ resp.body.end_time = resp.body.start_time + DayLen
    /\ \E w \in db.workouts : DateOf(w.end_time) > DateOf(w.start_time)

\* C22: get_workouts_recent returns one summary entry per workout of the
\* user inside the window, also for a workout without sets; num_sets of an
\* entry is the number of WorkoutSet rows of its workout (0 without sets);
\* the entries are ordered by date descending.
C22_WorkoutSummaries ==
    ( resp.op = "get_workouts_recent" /\ DaysValid(DaysOf(resp.args)) ) =>
        LET ws == {w \in db.workouts :
                     /\ w.user_id = resp.args.user_id
                     /\ w.start_time >= resp.args.now - DaysOf(resp.args) * DayLen}
        IN /\ resp.status = OK
           /\ Len(resp.body) = Cardinality(ws)
           /\ \A w \in ws :
                \E i \in DOMAIN resp.body :
                    /\ resp.body[i].workout_id = w.workout_id
                    /\ resp.body[i].date = DateOf(w.start_time)
                    /\ resp.body[i].label = w.label
                    /\ resp.body[i].num_sets =
                         Cardinality({s \in db.workout_sets : s.workout_id = w.workout_id})
           /\ \A i, j \in DOMAIN resp.body : i < j => resp.body[i].date >= resp.body[j].date

\* a listing came back with a workout without sets and a workout with sets
C22_Witness ==
    /\ resp.op = "get_workouts_recent" /\ resp.status = OK
    /\ \E i, j \in DOMAIN resp.body :
          resp.body[i].num_sets = 0 /\ resp.body[j].num_sets > 0

----------------------------------------------------------------------------
(* Properties of the frontend *)

\* the step is a script run of the session
ScriptRun == screen'.run # screen.run

\* the session holds a list under key
Stored(s, key) == key \in s.keys /\ s[key] # Nothing

Range(q) == { q[i] : i \in DOMAIN q }

\* C23: in a session the food list and the exercise list are fetched at
\* most once: a call of get_all_foods / get_all_exercises that finds a list
\* stored in the session returns that list and sends no request; the stored
\* food list is dropped only by a successful save in food_form (or with the
\* whole session at log out), the exercise list only at log out; the call
\* of get_all_foods after the reset asks the backend again and, when it is
\* answered, returns every food of the backend, the saved one included.
C23_FetchedOnce ==
    [][ ScriptRun =>
          /\ (screen'.foods # Nothing /\ Stored(session, "foods")) =>
                 /\ "get_foods_all" \notin Range(screen'.sent)
                 /\ screen'.foods = session.foods
          /\ (screen'.exercises # Nothing /\ Stored(session, "exercises")) =>
                 /\ "exercises_all" \notin Range(screen'.sent)
                 /\ screen'.exercises = session.exercises
          /\ "get_foods_all" \in Range(screen'.sent) =>
                 /\ ~Stored(session, "foods")
                 /\ Cardinality({i \in DOMAIN screen'.sent :
                                   screen'.sent[i] = "get_foods_all"}) = 1
          /\ "exercises_all" \in Range(screen'.sent) =>
                 /\ ~Stored(session, "exercises")
                 /\ Cardinality({i \in DOMAIN screen'.sent :
                                   screen'.sent[i] = "exercises_all"}) = 1
          /\ (Stored(session, "foods") /\ ~Stored(session', "foods")) =>
                 \/ screen'.event = "logout"
                 \/ /\ screen'.event = "save_food"
                    /\ "create_food" \in Range(screen'.received)
                    /\ Ok(resp'.status)
          /\ (Stored(session, "exercises") /\ ~Stored(session', "exercises")) =>
                 screen'.event = "logout"
          /\ ( /\ screen'.event = "save_food"
               /\ "create_food" \in Range(screen'.received)
               /\ Ok(resp'.status) ) =>
                 ("foods" \in session'.keys /\ session'.foods = Nothing)
          /\ (screen'.foods # Nothing /\ ~Stored(session, "foods")) =>
                 /\ "get_foods_all" \in Range(screen'.sent)
                 /\ "get_foods_all" \in Range(screen'.received) =>
                        /\ Range(The(screen'.foods)) = db'.foods
                        /\ Len(The(screen'.foods)) = Cardinality(db'.foods)
                 /\ session'.foods = screen'.foods
      ]_vars

\* the meal form was rendered from the stored food list, without a request,
\* while the backend holds a food that is not in the list
C23_Witness ==
    /\ screen.rendered = "meal_form"
    /\ screen.sent = <<>>
    /\ screen.foods # Nothing
    /\ screen.foods = session.foods
    /\ Range(The(screen.foods)) # db.foods

\* C30: the dashboard and the form pages are rendered only while
\* authenticated is true and the session holds the user record of a login;
\* authenticated becomes true, and a user record is stored, only by a 200
\* answer of /users/login; a log out from any page clears the whole session
\* and the login page is rendered; a page value that is no page of the
\* application is set back to the dashboard, which is rendered.
C30_SessionStateMachine ==
    [][ /\ screen'.rendered \in Pages =>
              (session'.authenticated /\ session'.user # Nothing)
        /\ screen'.rendered \in Pages \cup {"login"}
        /\ screen'.rendered = "login" <=> ~session'.authenticated
        /\ ( \/ ~session.authenticated /\ session'.authenticated
             \/ session'.user # Nothing /\ session'.user # session.user ) =>
              /\ screen'.event = "login"
              /\ "login" \in Range(screen'.received)
              /\ resp'.op = "login" /\ resp'.status = OK
              /\ session'.authenticated /\ session'.user = Some(resp'.body)
        /\ (ScriptRun /\ screen'.event = "logout") =>
              /\ screen.rendered \in Pages
              /\ session' = SessionState(ClearedSession)
              /\ screen'.rendered = "login"
        /\ session.authenticated =>
              \A up \in BOOLEAN, page \in {"", "settings", "login"} :
                  \A c \in Routing([Context EXCEPT !.session.page = page], NoEvent, up) :
                      c.rendered = "dashboard" /\ c.session.page = "dashboard"
      ]_vars

\* a user had logged in, and after a log out the login page is shown
C30_Witness ==
    /\ screen.event = "logout"
    /\ screen.rendered = "login"
    /\ ~session.authenticated
    /\ db.users # {}

----------------------------------------------------------------------------
(* Properties of the admin CLI and of the seed script *)

\* C25: delete_one changes the database only when the id typed, spaces
\* around it ignored, is all decimal digits, a row of the table has that
\* id and the answer to the confirmation is yes, in any case and with
\* spaces around it ignored; then the row is gone; in every other case
\* the database is unchanged.
C25_DeleteConfirmed ==
    [][ resp'.op = "delete_one" =>
          LET a == resp'.args
              pk == Strip(a.pk_input)
              digits == /\ pk # <<>>
                        /\ \A i \in DOMAIN pk :
                              pk[i] \in {"0", "1", "2", "3", "4", "5", "6", "7", "8", "9"}
              found == digits /\ \E r \in db[a.table.table] : r[a.table.pk] = IntOf(pk)
              yes == Lower(Strip(a.confirm)) = <<"y", "e", "s">>
          IN IF found /\ yes
             THEN /\ \A r \in db'[a.table.table] : r[a.table.pk] # IntOf(pk)
                  /\ db' # db
             ELSE db' = db
      ]_vars

\* a user with a sleep entry was deleted after the answer " YES "
C25_Witness ==
    /\ resp.op = "delete_one"
    /\ resp.body = "Deleted"
    /\ resp.args.table.table = "users"
    /\ resp.args.confirm = <<" ", "Y", "E", "S", " ">>
    /\ db.seq["sleep"] > 1
    /\ db.sleep = {}

\* C26: when clear_existing_data deletes the rows of a table, no row of a
\* table that references it exists (meal items are gone before meals and
\* foods, workout sets before workouts and exercises, sleep entries,
\* workouts and meals before users), the statement empties the table, and
\* at the commit all eight tables are empty.
C26_SafeDeleteOrder ==
    [][ /\ (seed \in DOMAIN ClearOrder /\ seed' = seed + 1) =>
              /\ \A t \in Referencing[ClearOrder[seed]] : db[t] = {}
              /\ db'[ClearOrder[seed]] = {}
              /\ \A t \in Tables \ {ClearOrder[seed]} : db'[t] = db[t]
        /\ (seed # 0 /\ seed' = 0) => \A t \in Tables : db'[t] = {}
      ]_vars

\* the script is about to delete the users of a database that had rows in
\* every table
C26_Witness ==
    /\ seed = Len(ClearOrder)
    /\ db.users # {}
    /\ \A t \in Tables \ {"exercises"} : db.seq[t] > 1

----------------------------------------------------------------------------
(* Properties of the references between the tables *)

\* C27: after any sequence of creates and deletes every Sleep, Workout and
\* Meal row references an existing User, every WorkoutSet an existing
\* Workout and an existing Exercise, every MealItem an existing Meal and an
\* existing Food.
C27_ReferentialIntegrity ==
    /\ \A s \in db.sleep : GetUser(db, s.user_id) # {}
    /\ \A w \in db.workouts : GetUser(db, w.user_id) # {}
    /\ \A m \in db.meals : GetUser(db, m.user_id) # {}
    /\ \A s \in db.workout_sets :
          GetWorkout(db, s.workout_id) # {} /\ GetExercise(db, s.exercise_id) # {}
    /\ \A i \in db.meal_items :
          GetMeal(db, i.meal_id) # {} /\ GetFood(db, i.food_id) # {}

\* a food that a meal item referenced was deleted; the meal is still there
C27_Witness ==
    /\ resp.op = "delete_food" /\ resp.status = OK
    /\ db.seq["meal_items"] > 1
    /\ db.meal_items = {}
    /\ db.meals # {}

----------------------------------------------------------------------------
(* Properties of requests served at the same time *)

\* the rows that reference a row that does not exist
Orphans(d) ==
    {s \in d.sleep : GetUser(d, s.user_id) = {}}
    \cup {w \in d.workouts : GetUser(d, w.user_id) = {}}
    \cup {m \in d.meals : GetUser(d, m.user_id) = {}}
    \cup {s \in d.workout_sets : GetWorkout(d, s.workout_id) = {}
                                  \/ GetExercise(d, s.exercise_id) = {}}
    \cup {i \in d.meal_items : GetMeal(d, i.meal_id) = {} \/ GetFood(d, i.food_id) = {}}

\* C28: whatever the order of a create's lookup, the delete of its parent
\* and the create's insert, no child of a deleted parent is persisted: the
\* insert of a child whose parent is there adds the child, which a later
\* delete of the parent removes; the insert of a child whose parent was
\* deleted after the lookup fails and adds no row.
C28_NoChildOfDeletedParent ==
    [][ /\ Orphans(db') = {}
        /\ \A i \in 1..MaxCalls :
              (calls[i].pc = "insert" /\ calls'[i].pc = "done") =>
                 IF ConstraintsHold(db, calls[i].op, calls[i].args)
                 THEN /\ calls'[i].status = OK
                      /\ calls'[i].body \in db'[TableOf(calls[i].op)]
                 ELSE /\ calls'[i].status >= BadRequest
                      /\ \A t \in Tables : db'[t] = db[t]
      ]_vars

\* a create whose parent was deleted between its lookup and its insert has
\* failed
C28_Witness ==
    \E i \in 1..MaxCalls :
        /\ calls[i].pc = "done"
        /\ calls[i].op \in CreateOps
        /\ calls[i].status = ServerError
        /\ resp.op = calls[i].op

\* C29: whatever the order of the lookups and inserts of requests for one
\* email, at most one User row holds the email, and every login or
\* create_user that has answered 200 returned the user_id of that row.
C29_OneUserPerEmail ==
    /\ \A e \in Emails : Cardinality({u \in db.users : u.email = e}) <= 1
    /\ \A i \in 1..MaxCalls :
          (calls[i].pc = "done" /\ calls[i].status = OK) =>
              \E u \in db.users :
                  u.email = calls[i].args.email /\ u.user_id = calls[i].body.user_id

\* of two requests for one unknown email, both past the lookup, one has
\* created the user and the other has failed
C29_Witness ==
    /\ calls[1].pc = "done" /\ calls[2].pc = "done"
    /\ calls[1].args.email = calls[2].args.email
    /\ calls[1].status = OK /\ calls[2].status = ServerError
    /\ calls[1].body \in db.users
    /\ db.seq["users"] = calls[1].body.user_id + 2

====
